---- MODULE Spec2Model ----
(***************************************************************************)
(* BigEye: batching of the test catalog (TestManager.subsetOfTests), the   *)
(* master/slave dispatch loop (BigEye.dispatchWork, callMaster, callSlave),*)
(* the catalog builder over the definition files (TestManager.buildTests), *)
(* the test filter (QualityTest.isTest) and the slave's fetch / compute /  *)
(* publish pipeline (BigEye.runTests).                                     *)
(*                                                                         *)
(* Python lists are 0-based; sequences here are 1-based.  Slice and At     *)
(* translate the Python indexing, every index written in an operator that  *)
(* models code is the Python (0-based) index.                              *)
(***************************************************************************)
EXTENDS Integers, Sequences, FiniteSets, Bags, TLC

VARIABLES
    \* ---- batcher (TestManager.subsetOfTests applied repeatedly) ----
    tests,          \* the ordered test list (the catalog buildTests returns)
    maxsize,        \* third argument of subsetOfTests
    startIndex,     \* the cursor: argument of the next call (event's startIndex)
    firstIndex,     \* the cursor the repeated application started from
    prevIndex,      \* startIndex of the last call, -1 before the first
    subset,         \* batch returned by the last call
    batches,        \* concatenation of all batches returned so far
    \* ---- dispatch (BigEye.dispatchWork / callMaster / callSlave) ----
    env,            \* "dev" (local, synchronous) or "prod" (distributed)
    batchSize,      \* runConfiguration.batchSize
    maxIterations,  \* runConfiguration.iterations
    role,           \* the role the instance was constructed with
    masters,        \* one record per dispatchWork invocation (generation) followed
    slaves,         \* bag of slave invocations: in flight, running, or at their end
    calls,          \* log of the callSlave / callMaster calls of masters, in issue order
    \* ---- worker pipeline (BigEye.runTests on one batch) ----
    wtests,         \* the tests built by the slave, with fetchers' results
    wpc,            \* position of the slave inside runTests
    ti,             \* index of the test being fetched / computed
    fi,             \* index of the data-source entry being fetched
    failed,         \* per test: the fetch failure it ran into, or "none"
    testsWithResults, \* fetchResults' list of fetched tests (indices of wtests)
    published,      \* the lists handed to publishResults, in call order
    wexc,           \* the exception that ended runTests, or "none"
    publishers,     \* PublisherManager.publishers: the configured destinations
    pi,             \* index of the destination publishResults calls next
    delivered,      \* log of the calls p.publishResults(testsForThisPublisher)
    assigned,       \* per test: how often computeResult has assigned result
    conns,          \* the data-source connections that are open
    warnings,       \* log of fetchResults' overrun warnings (the test warned about)
    queries,        \* log of the calls fetcher.fetchResults: <<test, entry>>
    \* ---- catalog builder (TestManager.buildTests) ----
    definitions,    \* the tests of all definition files, in build order
    caller,         \* the method that calls buildTests, or "direct"
    filesArg,       \* argument filesNames of the call
    onlyActive,     \* argument onlyActive of the call
    bpc,            \* "start" before the call, "built" after it
    built,          \* the list buildTests returned
    files,          \* the definition files under testsPath: path -> parsed yaml
    bexc,           \* the exception that ended buildTests, or "none"
    \* ---- test filter (QualityTest.isTest) ----
    instance,       \* the test isTest is called on
    kwargs,         \* the keyword arguments **criteria, in call order: <<name, value>>
    mpc,            \* "start" before the call, "called" after it
    outcome,        \* what the call did: the value returned or the exception
    \* ---- instance (BigEye.__init__ / executeResponsabilites) ----
    managers,       \* the manager attributes the instance has
    epc,            \* position of the instance: constructed, inside its work, returned
    used,           \* the manager attributes the work has read so far
    eexc            \* the exception that ended executeResponsabilites, or "none"

batcherVars  == <<maxsize, startIndex, firstIndex, prevIndex, subset, batches>>
configVars   == <<env, batchSize, maxIterations, role>>
dispatchVars == <<configVars, masters, slaves, calls>>
workerVars   == <<wtests, wpc, ti, fi, failed, testsWithResults, published, wexc,
                 publishers, pi, delivered, assigned, conns, warnings, queries>>
buildVars    == <<definitions, caller, filesArg, onlyActive, bpc, built, files, bexc>>
matchVars    == <<instance, kwargs, mpc, outcome>>
entryVars    == <<managers, epc, used, eexc>>
vars == <<tests, batcherVars, dispatchVars, workerVars, buildVars, matchVars, entryVars>>

\* ---------------------------------------------------------------- bounds
MaxTests == 4       \* longest test list explored
MaxSize  == 3       \* largest maxsize / batchSize explored
Names    == {"a", "b", "c"}

\* ------------------------------------------------------- Python helpers
Min(x, y) == IF x <= y THEN x ELSE y
Max(x, y) == IF x >= y THEN x ELSE y

\* seq[i] for a Python index i >= 0
At(seq, i) == seq[i + 1]

\* seq[lo:hi] for 0 <= lo, 0 <= hi: both ends are clamped to len(seq)
Slice(seq, lo, hi) ==
    LET h == Min(hi, Len(seq))
        l == Min(lo, h)
    IN  SubSeq(seq, l + 1, h)

\* ---------------------------------------------------------- Test model
\* A test of the list: its name, its object identity (the position the
\* catalog builder gave it) and its flag active, which is true for every test
\* of a catalog built with the default onlyActive.  Two tests may share a name.
mkTests(names) ==
    [i \in 1..Len(names) |-> [name |-> names[i], id |-> i, active |-> TRUE]]

TestLists == UNION {[1..n -> Names] : n \in 0..MaxTests}

\* QualityTest.isTest(**criteria): every supplied pair equals the attribute
isTestAlways(test, criteria) == TRUE
isTest(test, criteria) ==
    \A k \in DOMAIN criteria : test[k] = criteria[k]

\* TestManager.subsetOfTests without the trimming branch
subsetOfTestsNoTrim(tsts, start, msize) ==
    LET sub == Slice(tsts, start, start + msize)
    IN  <<sub, start + Len(sub)>>

\* TestManager.subsetOfTests with a guard: when trimming leaves nothing, the
\* untrimmed slice is returned
subsetOfTestsKeepSlice(tsts, start, msize) ==
    IF (start + msize) >= Len(tsts)
       \/ At(tsts, start + msize - 1).name /= At(tsts, start + msize).name
    THEN LET sub == Slice(tsts, start, start + msize)
         IN  <<sub, start + Len(sub)>>
    ELSE LET sl  == Slice(tsts, start, start + msize)
             sub == SelectSeq(sl, LAMBDA t :
                        ~ isTest(t, [name |-> sl[Len(sl)].name]))
         IN  IF sub = <<>> THEN <<sl, start + Len(sl)>>
                           ELSE <<sub, start + Len(sub)>>

\* TestManager.subsetOfTests whose trimming branch drops the whole slice
subsetOfTestsTrimAll(tsts, start, msize) ==
    IF (start + msize) >= Len(tsts)
       \/ At(tsts, start + msize - 1).name /= At(tsts, start + msize).name
    THEN LET sub == Slice(tsts, start, start + msize)
         IN  <<sub, start + Len(sub)>>
    ELSE <<(<<>>), start>>

\* TestManager.subsetOfTests(tests, startIndex, maxsize) -> (subset, nextIndex)
subsetOfTests(tsts, start, msize) ==
    IF (start + msize) >= Len(tsts)
       \/ At(tsts, start + msize - 1).name /= At(tsts, start + msize).name
    THEN LET sub == Slice(tsts, start, start + msize)
         IN  <<sub, start + Len(sub)>>
    ELSE LET sl  == Slice(tsts, start, start + msize)
             sub == SelectSeq(sl, LAMBDA t :
                        ~ isTest(t, [name |-> sl[Len(sl)].name]))
         IN  <<sub, start + Len(sub)>>

\* ---------------------------------------------------- derived notions
Ids(seq) == [k \in 1..Len(seq) |-> seq[k].id]
IdSet(seq) == {seq[k].id : k \in 1..Len(seq)}

\* positions i..j (1-based) all carry one name
SameRun(tsts, i, j) ==
    \A k \in Min(i, j)..Max(i, j) : tsts[k].name = tsts[i].name

\* length of the longest run of consecutive equal-named tests
LongestRun(tsts) ==
    LET RunAt(i) == CHOOSE n \in 1..Len(tsts) :
                        /\ i + n - 1 <= Len(tsts)
                        /\ SameRun(tsts, i, i + n - 1)
                        /\ (i + n <= Len(tsts) => tsts[i + n].name /= tsts[i].name)
        RECURSIVE Best(_)
        Best(i) == IF i > Len(tsts) THEN 0 ELSE Max(RunAt(i), Best(i + 1))
    IN  Best(1)

\* largest number of tests of the list sharing one name
MaxSameName(tsts) ==
    LET Count(n) == Cardinality({k \in 1..Len(tsts) : tsts[k].name = n})
        RECURSIVE Best(_)
        Best(S) == IF S = {} THEN 0
                   ELSE LET n == CHOOSE x \in S : TRUE
                        IN  Max(Count(n), Best(S \ {n}))
    IN  Best(Names)

\* ------------------------------------------------------ idle sub-states
DispatchIdle ==
    /\ env = "dev" /\ batchSize = 1 /\ maxIterations = 1 /\ role = "master"
    /\ masters = <<>> /\ slaves = EmptyBag /\ calls = <<>>

WorkerIdle ==
    /\ wtests = <<>> /\ wpc = "idle" /\ ti = 0 /\ fi = 0
    /\ failed = <<>> /\ testsWithResults = <<>>
    /\ published = <<>> /\ wexc = "none"
    /\ publishers = <<>> /\ pi = 0 /\ delivered = <<>>
    /\ assigned = <<>> /\ conns = {}
    /\ warnings = <<>> /\ queries = <<>>

BatcherIdle ==
    /\ maxsize = 1 /\ startIndex = 0 /\ firstIndex = 0 /\ prevIndex = -1
    /\ subset = <<>> /\ batches = <<>>

BuildIdle ==
    /\ definitions = <<>> /\ caller = "direct" /\ filesArg = <<>>
    /\ onlyActive = TRUE /\ bpc = "idle" /\ built = <<>>
    /\ files = <<>> /\ bexc = "none"

MatchIdle ==
    /\ instance = <<>> /\ kwargs = <<>> /\ mpc = "idle" /\ outcome = <<>>

EntryIdle ==
    /\ managers = {} /\ epc = "idle" /\ used = {} /\ eexc = "none"

\* ============================================================ batcher
\* Every test list, every startIndex inside it and every maxsize >= 1.
InitSubset ==
    /\ tests \in {mkTests(f) : f \in TestLists}
    /\ maxsize \in 1..MaxSize
    /\ startIndex \in 0..Len(tests)
    /\ firstIndex = startIndex
    /\ prevIndex = -1
    /\ subset = <<>>
    /\ batches = <<>>
    /\ DispatchIdle
    /\ WorkerIdle
    /\ BuildIdle
    /\ MatchIdle
    /\ EntryIdle

\* One application of subsetOfTests at the cursor; nextIndex is fed back.
Subset ==
    /\ startIndex < Len(tests)
    /\ LET r == subsetOfTests(tests, startIndex, maxsize)
       IN  /\ subset' = r[1]
           /\ startIndex' = r[2]
           /\ batches' = batches \o r[1]
    /\ prevIndex' = startIndex
    /\ UNCHANGED <<tests, maxsize, firstIndex, dispatchVars, workerVars, buildVars,
                   matchVars, entryVars>>

NextSubset == Subset

SpecSubset == InitSubset /\ [][NextSubset]_vars

\* the last call took the trimming branch
Trimmed ==
    /\ prevIndex >= 0
    /\ prevIndex + maxsize < Len(tests)
    /\ At(tests, prevIndex + maxsize - 1).name = At(tests, prevIndex + maxsize).name

\* C1: subsetOfTests never splits a run of consecutive equal-named tests of
\* tests[startIndex:]: no such run has one element in the returned batch and
\* another one, left out of the batch, in the remainder tests[nextIndex:].
C1_NoRunSplit ==
    prevIndex >= 0 =>
        \A i, j \in (prevIndex + 1)..Len(tests) :
            (SameRun(tests, i, j) /\ i \in IdSet(subset) /\ j \notin IdSet(subset))
                => ~ (j > startIndex)

\* the trimming branch was taken on a list whose equal names are scattered
C1_Witness ==
    /\ Trimmed
    /\ subset /= <<>>
    /\ \E i, j \in 1..Len(tests) :
           i < j /\ tests[i].name = tests[j].name /\ ~ SameRun(tests, i, j)

\* C2 (as claimed): with maxsize >= the longest same-name run, repeated
\* application from 0 ends with every test in the batches exactly once.
C2_VisitsEachOnce ==
    (firstIndex = 0 /\ maxsize >= LongestRun(tests) /\ startIndex >= Len(tests))
        => Ids(batches) = [k \in 1..Len(tests) |-> k]

\* C6 (as claimed): the batch is the contiguous slice
\* tests[startIndex:nextIndex], at most maxsize long, and
\* nextIndex = startIndex + len(batch) <= len(tests).
C6_ContiguousSlice ==
    prevIndex >= 0 =>
        /\ subset = Slice(tests, prevIndex, startIndex)
        /\ Len(subset) <= maxsize
        /\ startIndex = prevIndex + Len(subset)
        /\ startIndex <= Len(tests)

\* C7: when maxsize exceeds the largest number of tests sharing one name,
\* a call with startIndex < len(tests) returns nextIndex > startIndex.
C7_Progress ==
    (prevIndex >= 0 /\ prevIndex < Len(tests) /\ maxsize > MaxSameName(tests))
        => startIndex > prevIndex

\* the trimming branch was taken under the precondition and still advanced
C7_Witness ==
    /\ Trimmed
    /\ maxsize > MaxSameName(tests)
    /\ startIndex > prevIndex
    /\ startIndex < prevIndex + maxsize

\* the tests of the candidate slice of the last call that its batch left out
TrimmedAway ==
    SelectSeq(Slice(tests, prevIndex, prevIndex + maxsize),
              LAMBDA t : t.id \notin IdSet(subset))

\* C25 (as claimed): with maxsize at least the longest same-name run, after
\* a call that took the trimming branch the next call,
\* subsetOfTests(tests, nextIndex, maxsize), returns a batch that begins with
\* exactly the trimmed-away tests, in catalog order.
C25_TrimmedReappearFirst ==
    (Trimmed /\ maxsize >= LongestRun(tests)) =>
        LET next == subsetOfTests(tests, startIndex, maxsize)[1]
        IN  /\ Len(TrimmedAway) <= Len(next)
            /\ \A k \in 1..Len(TrimmedAway) : next[k].id = TrimmedAway[k].id

\* =========================================================== dispatch
MaxIter == 2        \* largest runConfiguration.iterations explored
CatalogNames == {"a", "b"}
Catalogs == UNION {[1..n -> CatalogNames] : n \in 0..MaxTests}
\* the name of the test without the extension
fileNameBare(name) == <<name>>

\* test.name + '.yaml'
fileName(name) == <<name, ".yaml">>

\* The optional argument filesNames of buildTests / findTestFiles:
\* Python's None (not given), or a list of file names.
None == [isNone |-> TRUE, list |-> <<>>]
Some(list) == [isNone |-> FALSE, list |-> list]

\* buildTests: a filter that keeps every test
isActiveAny(test) == TRUE

\* buildTests: `test.active == True`
isActive(test) == test.active = TRUE

\* TestManager.findTestFiles / buildTests(path, filesNames, onlyActive): the
\* tests of the definition files, restricted to the files whose base name
\* is in filesNames when filesNames is given, then to the active tests when
\* onlyActive.  A test named n is declared in a file n.yaml (the layout
\* testToYAMLs writes).
buildTests(defs, filesNames, active) ==
    LET found == IF filesNames.isNone THEN defs
                 ELSE SelectSeq(defs, LAMBDA t :
                          \E k \in 1..Len(filesNames.list) :
                              filesNames.list[k] = fileName(t.name))
    IN  IF active THEN SelectSeq(found, isActive) ELSE found

\* dispatchWork: the while condition without the iteration budget
loopConditionNoBudget(m) == m.startIndex < Len(m.tests)

\* dispatchWork: the while condition without the end of the catalog
loopConditionNoEnd(m) == m.iterations <= maxIterations

\* dispatchWork: `while startIndex < len(tests) and iterations <= maxIterations`
loopCondition(m) ==
    m.startIndex < Len(m.tests) /\ m.iterations <= maxIterations

\* dispatchWork: a role check that lets every role through
roleCheckOff(r) == FALSE

\* dispatchWork: `if self.role != 'master': raise Exception(...)`
roleCheck(r) == r /= "master"

\* a dispatchWork invocation whose counter starts below 0
newMasterStaleCount(s, parentGen, state) ==
    [pc |-> state, entry |-> s, startIndex |-> s, iterations |-> -1,
     newstartIndex |-> s, parent |-> parentGen, sleeps |-> 0, tests |-> <<>>]

\* a dispatchWork invocation called with cursor s (iterations = 0); entry
\* keeps the cursor of the call, parent the generation whose hand-off it is
\* (0: invoked from outside), sleeps counts the pauses of callSlave that
\* ended, tests is its local `tests` (empty until buildTests has returned)
newMaster(s, parentGen, state) ==
    [pc |-> state, entry |-> s, startIndex |-> s, iterations |-> 0,
     newstartIndex |-> s, parent |-> parentGen, sleeps |-> 0, tests |-> <<>>]

\* callSlave that returns to the loop right after the invocation
afterCallSlaveNoPause(e) == IF e = "prod" THEN "loop" ELSE "inSlave"

\* callSlave: in prod invokeFunction('OverwatchSlave', 'async', ...) returns
\* without the slave's result and sleep(timeBetweenCalls) follows; in dev
\* runTests runs in the caller's thread
afterCallSlave(e) == IF e = "prod" THEN "sleep" ELSE "inSlave"

\* the roles an instance is constructed with
Roles == {"master", "slave", "updater"}

\* the loop of dispatchWork, repeated from cursor c with batches of at most
\* msize tests, gets to the end of the catalog tsts: every batch taken on the
\* way moves the cursor
RECURSIVE loopCompletes(_, _, _)
loopCompletes(tsts, c, msize) ==
    IF c >= Len(tsts) THEN TRUE
    ELSE LET newstartIndex == subsetOfTests(tsts, c, msize)[2]
         IN  IF newstartIndex <= c THEN FALSE
             ELSE loopCompletes(tsts, newstartIndex, msize)

\* dev: dispatchWork(c) over the catalog tsts, with every dispatchWork its
\* hand-offs nest, can return: the cursor is at the end, or the budget
\* allows a dispatch and every dispatch moves the cursor.  Otherwise every
\* generation hands off inside the catalog and callMaster -> dispatchWork
\* nests until Python's recursion limit.
chainCompletes(tsts, c, msize, budget) ==
    c >= Len(tsts) \/ (budget >= 1 /\ loopCompletes(tsts, c, msize))

\* dev: some runTests of dispatchWork(c) and the dispatchWork calls it nests
\* gets a non-empty list, so that fetchResults, computeResults or
\* publishResults can raise: the first batch taken at c has tests (when it
\* has none the cursor stays and every later batch is the same)
chainCanRaise(tsts, c, msize, budget) ==
    LET testBatch == subsetOfTests(tsts, c, msize)[1]
        filesNames == [k \in 1..Len(testBatch) |-> fileName(testBatch[k].name)]
    IN  /\ c < Len(tsts)
        /\ budget >= 1
        /\ Len(buildTests(tsts, Some(filesNames), TRUE)) > 0

\* dispatchWork(startIndex) is called on an instance of any role, in dev or
\* prod, with any cursor, over any catalog and configuration.  One
\* invocation (generation) is followed; the cursor 0 is the start of a run,
\* another cursor is the one a hand-off passed.
InitDispatch ==
    /\ tests \in {mkTests(f) : f \in Catalogs}
    /\ env \in {"dev", "prod"}
    /\ batchSize \in 1..MaxSize
    /\ maxIterations \in 0..MaxIter
    /\ role \in Roles
    /\ \E s \in 0..Len(tests) : masters = <<newMaster(s, 0, "called")>>
    /\ slaves = EmptyBag
    /\ calls = <<>>
    /\ BatcherIdle
    /\ WorkerIdle
    /\ BuildIdle
    /\ MatchIdle
    /\ EntryIdle

\* dispatchWork, entry: the role check, then
\* `tests = self.testManager.buildTests(self.testsPath)` (the catalog the
\* definition files give), `iterations = 0` and the iteration budget are read
DispatchWork(g) ==
    /\ masters[g].pc = "called"
    /\ masters' = [masters EXCEPT ![g] =
                      IF roleCheck(role)
                      THEN [masters[g] EXCEPT !.pc = "fatal"]
                      ELSE [masters[g] EXCEPT !.pc = "loop", !.tests = tests]]
    /\ UNCHANGED <<tests, configVars, slaves, calls, batcherVars, workerVars, buildVars,
                   matchVars, entryVars>>

\* dispatchWork, else branch of one loop iteration: next batch, callSlave.
\* In prod callSlave invokes the slave function asynchronously and sleeps;
\* in dev it runs runTests in the same thread.
MasterDispatch(g) ==
    LET m == masters[g]
        r == subsetOfTests(m.tests, m.startIndex, batchSize)
        testBatch == r[1]
        filesNames == [k \in 1..Len(testBatch) |-> fileName(testBatch[k].name)]
    IN  /\ m.pc = "loop"
        /\ loopCondition(m)
        /\ m.iterations + 1 <= maxIterations
        /\ calls' = Append(calls, [kind |-> "slave", gen |-> g,
                                   startIndex |-> m.startIndex,
                                   filesNames |-> filesNames,
                                   batch |-> Ids(testBatch)])
        /\ slaves' = slaves (+) SetToBag({[pc |-> "invoked",
                                            filesNames |-> filesNames,
                                            tests |-> <<>>]})
        /\ masters' = [masters EXCEPT ![g] =
                          [m EXCEPT !.iterations = m.iterations + 1,
                                    !.newstartIndex = r[2],
                                    !.pc = afterCallSlave(env)]]
        /\ UNCHANGED <<tests, configVars, batcherVars, workerVars, buildVars,
                   matchVars, entryVars>>

\* callSlave in prod: sleep(timeBetweenCalls) ends, `startIndex = newstartIndex`
SleepEnd(g) ==
    /\ masters[g].pc = "sleep"
    /\ masters' = [masters EXCEPT ![g] =
                      [masters[g] EXCEPT !.pc = "loop",
                                         !.sleeps = masters[g].sleeps + 1,
                                         !.startIndex = masters[g].newstartIndex]]
    /\ UNCHANGED <<tests, configVars, slaves, calls, batcherVars, workerVars, buildVars,
                   matchVars, entryVars>>

\* dispatchWork, if branch, in prod: callMaster(startIndex) invokes the next
\* master asynchronously.  The invoked generation is not followed: it is a
\* master invocation with the cursor of the call, and the initial states
\* range over every cursor.
CallMasterAsync(g) ==
    LET m == masters[g]
    IN  /\ env = "prod"
        /\ m.pc = "loop"
        /\ loopCondition(m)
        /\ m.iterations + 1 > maxIterations
        /\ calls' = Append(calls, [kind |-> "master", gen |-> g,
                                   startIndex |-> m.startIndex,
                                   filesNames |-> <<>>, batch |-> <<>>])
        /\ masters' = [masters EXCEPT ![g] =
                          [m EXCEPT !.iterations = m.iterations + 1]]
        /\ UNCHANGED <<tests, configVars, slaves, batcherVars, workerVars, buildVars,
                   matchVars, entryVars>>

\* dispatchWork, if branch, in dev: callMaster(startIndex) calls
\* dispatchWork(startIndex) in the caller's thread and this generation waits
\* for it.  The called generation is not followed step by step: it is a
\* dispatchWork invocation with the cursor of the call, and the initial
\* states range over every cursor; this generation sees how the call ends.
CallMasterLocal(g) ==
    LET m == masters[g]
    IN  /\ env = "dev"
        /\ m.pc = "loop"
        /\ loopCondition(m)
        /\ m.iterations + 1 > maxIterations
        /\ calls' = Append(calls, [kind |-> "master", gen |-> g,
                                   startIndex |-> m.startIndex,
                                   filesNames |-> <<>>, batch |-> <<>>])
        /\ masters' = [masters EXCEPT ![g] =
                          [m EXCEPT !.iterations = m.iterations + 1,
                                    !.pc = "inMaster"]]
        /\ UNCHANGED <<tests, configVars, slaves, batcherVars, workerVars, buildVars,
                   matchVars, entryVars>>

\* prod: the function invoked by callMaster starts on a master instance:
\* executeResponsabilites -> dispatchWork(params['startIndex'])
MasterStart(g) ==
    /\ masters[g].pc = "invoked"
    /\ masters' = [masters EXCEPT ![g] = [masters[g] EXCEPT !.pc = "called"]]
    /\ UNCHANGED <<tests, configVars, slaves, calls, batcherVars, workerVars, buildVars,
                   matchVars, entryVars>>

\* dispatchWork: the while condition is false, the invocation returns
MasterLoopExit(g) ==
    /\ masters[g].pc = "loop"
    /\ ~ loopCondition(masters[g])
    /\ masters' = [masters EXCEPT ![g] = [masters[g] EXCEPT !.pc = "done"]]
    /\ UNCHANGED <<tests, configVars, slaves, calls, batcherVars, workerVars, buildVars,
                   matchVars, entryVars>>

\* dev: the dispatchWork called by callMaster has returned, which it can when
\* the dispatches from the cursor of the call get to the end of the catalog
MasterReturn(g) ==
    LET m == masters[g]
    IN  /\ m.pc = "inMaster"
        /\ chainCompletes(m.tests, m.startIndex, batchSize, maxIterations)
        /\ masters' = [masters EXCEPT ![g] = [m EXCEPT !.pc = "loop"]]
        /\ UNCHANGED <<tests, configVars, slaves, calls, batcherVars, workerVars,
                       buildVars, matchVars, entryVars>>

\* dev: a runTests under the dispatchWork called by callMaster raises out of
\* fetchResults / computeResults / publishResults; nothing catches it, and it
\* unwinds callMaster and this dispatchWork
MasterUnwind(g) ==
    LET m == masters[g]
    IN  /\ m.pc = "inMaster"
        /\ chainCanRaise(m.tests, m.startIndex, batchSize, maxIterations)
        /\ masters' = [masters EXCEPT ![g] = [m EXCEPT !.pc = "crashed"]]
        /\ UNCHANGED <<tests, configVars, slaves, calls, batcherVars, workerVars,
                       buildVars, matchVars, entryVars>>

\* dev: the dispatches from the cursor of the call never get to the end of
\* the catalog (no budget, or a batch that does not move the cursor), every
\* generation hands off by calling dispatchWork again, and the interpreter
\* raises RecursionError, which unwinds every dispatchWork of the thread
RecursionOverflow(g) ==
    LET m == masters[g]
    IN  /\ m.pc = "inMaster"
        /\ ~ chainCompletes(m.tests, m.startIndex, batchSize, maxIterations)
        /\ masters' = [masters EXCEPT ![g] = [m EXCEPT !.pc = "crashed"]]
        /\ UNCHANGED <<tests, configVars, slaves, calls, batcherVars, workerVars,
                       buildVars, matchVars, entryVars>>

\* one invocation s of the bag goes to the state t
moveSlave(s, t) == (slaves (-) SetToBag({s})) (+) SetToBag({t})

\* runTests(filesNames) runs to its end: the tests are built, and when
\* there are any they are fetched, computed and published.
\* In dev the waiting master goes on with `startIndex = newstartIndex`.
SlaveReturn(s) ==
    /\ s.pc = "invoked"
    /\ slaves' = moveSlave(s, [s EXCEPT !.pc = "returned",
                     !.tests = Ids(buildTests(tests, Some(s.filesNames), TRUE))])
    /\ masters' = IF env = "dev"
                  THEN [g \in 1..Len(masters) |->
                           IF masters[g].pc = "inSlave"
                           THEN [masters[g] EXCEPT !.pc = "loop",
                                     !.startIndex = masters[g].newstartIndex]
                           ELSE masters[g]]
                  ELSE masters
    /\ UNCHANGED <<tests, configVars, calls, batcherVars, workerVars, buildVars,
                   matchVars, entryVars>>

\* runTests(filesNames) raises out of fetchResults / computeResults /
\* publishResults (only reached when len(tests) > 0).  In dev the exception
\* unwinds callSlave and every dispatchWork frame of the thread.
SlaveRaise(s) ==
    LET rebuilt == buildTests(tests, Some(s.filesNames), TRUE)
    IN  /\ s.pc = "invoked"
        /\ Len(rebuilt) > 0
        /\ slaves' = moveSlave(s, [s EXCEPT !.pc = "raised", !.tests = Ids(rebuilt)])
        /\ masters' = IF env = "dev"
                      THEN [g \in 1..Len(masters) |->
                               IF masters[g].pc \in {"inSlave", "inMaster"}
                               THEN [masters[g] EXCEPT !.pc = "crashed"]
                               ELSE masters[g]]
                      ELSE masters
        /\ UNCHANGED <<tests, configVars, calls, batcherVars, workerVars, buildVars,
                   matchVars, entryVars>>

\* One dispatchWork invocation in dev or prod, and the slave runs it starts
NextDispatch ==
    \/ \E g \in 1..Len(masters) : DispatchWork(g)
    \/ \E g \in 1..Len(masters) : MasterDispatch(g)
    \/ \E g \in 1..Len(masters) : SleepEnd(g)
    \/ \E g \in 1..Len(masters) : CallMasterAsync(g)
    \/ \E g \in 1..Len(masters) : CallMasterLocal(g)
    \/ \E g \in 1..Len(masters) : MasterLoopExit(g)
    \/ \E g \in 1..Len(masters) : MasterReturn(g)
    \/ \E g \in 1..Len(masters) : MasterUnwind(g)
    \/ \E g \in 1..Len(masters) : RecursionOverflow(g)
    \/ \E s \in BagToSet(slaves) : SlaveReturn(s)
    \/ \E s \in BagToSet(slaves) : SlaveRaise(s)

SpecDispatch == InitDispatch /\ [][NextDispatch]_vars

\* One generation at a time, entered at any cursor.  The asynchronous
\* invocation of a master (callMaster, or the first invocation of the run) is
\* delivered twice: two master invocations get the same event, i.e. the same
\* cursor, over the same catalog and configuration.
InitRedelivery ==
    /\ tests \in {mkTests(f) : f \in Catalogs}
    /\ env = "prod"
    /\ batchSize \in 1..MaxSize
    /\ maxIterations \in 0..MaxIter
    /\ role = "master"
    /\ \E s \in 0..Len(tests) :
           masters = <<newMaster(s, 0, "invoked"), newMaster(s, 0, "invoked")>>
    /\ slaves = EmptyBag
    /\ calls = <<>>
    /\ BatcherIdle
    /\ WorkerIdle
    /\ BuildIdle
    /\ MatchIdle
    /\ EntryIdle

\* The steps of the two master invocations in prod.  The slave invocations
\* they issue stay in flight: in prod no step of a master reads anything a
\* slave does (the slaves' runs are part of SpecDispatch).
NextRedelivery ==
    \/ \E g \in 1..Len(masters) : MasterStart(g)
    \/ \E g \in 1..Len(masters) : DispatchWork(g)
    \/ \E g \in 1..Len(masters) : MasterDispatch(g)
    \/ \E g \in 1..Len(masters) : SleepEnd(g)
    \/ \E g \in 1..Len(masters) : CallMasterAsync(g)
    \/ \E g \in 1..Len(masters) : MasterLoopExit(g)

SpecRedelivery == InitRedelivery /\ [][NextRedelivery]_vars

\* ------------------------------------------------ dispatch: the claims
\* positions in the call log of generation g's hand-offs / worker dispatches
HandOffs(g)   == {k \in 1..Len(calls) : calls[k].kind = "master" /\ calls[k].gen = g}
SlaveCalls(g) == {k \in 1..Len(calls) : calls[k].kind = "slave" /\ calls[k].gen = g}

\* ids of the tests of the batches dispatched before call k, in dispatch order
RECURSIVE DispatchedBefore(_)
DispatchedBefore(k) ==
    IF k <= 1 THEN <<>>
    ELSE DispatchedBefore(k - 1) \o calls[k - 1].batch

\* the run started at cursor 0 has stopped: its generation has returned
\* without a hand-off
ChainDone ==
    \A g \in 1..Len(masters) :
        masters[g].entry = 0 /\ masters[g].pc = "done" /\ HandOffs(g) = {}

\* C3: a generation that has used up its budget of maxIterations worker
\* dispatches with tests left issues exactly one hand-off, which carries the
\* nextIndex returned by its last batch, and no worker dispatch after it.
C3_OneHandOff ==
    \A g \in 1..Len(masters) :
        /\ Cardinality(HandOffs(g)) <= 1
        /\ \A k \in HandOffs(g) :
              /\ Cardinality(SlaveCalls(g)) = maxIterations
              /\ calls[k].startIndex = masters[g].newstartIndex
              /\ calls[k].startIndex < Len(tests)
              /\ \A j \in SlaveCalls(g) : j < k
        /\ (/\ masters[g].pc = "done"
            /\ Cardinality(SlaveCalls(g)) = maxIterations
            /\ masters[g].startIndex < Len(tests))
               => Cardinality(HandOffs(g)) = 1

\* a generation dispatched its whole budget, handed off mid-catalog with the
\* advanced cursor and returned
C3_Witness ==
    \E g \in 1..Len(masters) :
        /\ masters[g].pc = "done"
        /\ SlaveCalls(g) /= {}
        /\ \E k \in HandOffs(g) : calls[k].startIndex > masters[g].entry

\* C5 (as claimed, the part a finite run decides): when batchSize is at
\* least the longest same-name run and the run started at 0 has stopped
\* (its generation returned without handing off), every test of the catalog
\* is in a dispatched batch.
C5_AllDispatchedAtDone ==
    (batchSize >= LongestRun(tests) /\ ChainDone)
        => \A t \in 1..Len(tests) :
               \E k \in 1..Len(calls) :
                   \E n \in 1..Len(calls[k].batch) : calls[k].batch[n] = t

\* C8 (as claimed): at every loop iteration and hand-off of a run started at
\* cursor 0 the cursor is the number of tests dispatched so far, and these
\* are the tests at catalog positions 0 .. startIndex-1.
C8_CursorCountsDispatched ==
    (\A g \in 1..Len(masters) : masters[g].entry = 0) =>
        \A k \in 1..Len(calls) :
            LET d == DispatchedBefore(k)
            IN  /\ calls[k].startIndex = Len(d)
                /\ d = [i \in 1..Len(d) |-> i]

\* C9 (as claimed): in distributed mode the batches of two different slave
\* invocations are disjoint, and no test is fetched by two slave runs.
C9_DisjointBatches ==
    env = "prod" =>
        /\ \A j, k \in 1..Len(calls) :
               j /= k =>
                   {calls[j].batch[n] : n \in 1..Len(calls[j].batch)}
                     \cap {calls[k].batch[n] : n \in 1..Len(calls[k].batch)} = {}
        /\ \A s \in BagToSet(slaves) :
               s.tests /= <<>> => CopiesIn(s, slaves) = 1
        /\ \A s, t \in BagToSet(slaves) :
               s /= t =>
                   {s.tests[n] : n \in 1..Len(s.tests)}
                     \cap {t.tests[n] : n \in 1..Len(t.tests)} = {}

\* C14: a generation whose cursor has reached the end of the catalog, on any
\* dispatch up to its maxIterations-th or on entry, can only return: every
\* worker dispatch and every hand-off was issued at a cursor inside the
\* catalog, the loop condition is false at the end, and the step such a
\* generation takes issues no call and leaves it in the loop or done.
C14_EndGoesDone ==
    /\ [](\A g \in 1..Len(masters) :
            /\ \A k \in SlaveCalls(g) \cup HandOffs(g) :
                   calls[k].startIndex < Len(tests)
            /\ (masters[g].pc = "loop" /\ masters[g].startIndex >= Len(tests))
                   => ~ loopCondition(masters[g]))
    /\ [][\A g \in 1..Len(masters) :
            (masters[g].pc \in {"loop", "done"}
               /\ masters[g].startIndex >= Len(tests))
                => /\ masters'[g].pc \in {"loop", "done"}
                   /\ masters'[g].startIndex = masters[g].startIndex
                   /\ \A k \in (Len(calls) + 1)..Len(calls') : calls'[k].gen /= g]_vars

\* a generation has returned at the end of a non-empty catalog, which it
\* reached on exactly its maxIterations-th dispatch, without a hand-off
C14_Witness ==
    \E g \in 1..Len(masters) :
        /\ masters[g].pc = "done"
        /\ maxIterations >= 1
        /\ masters[g].entry < Len(tests)
        /\ masters[g].startIndex >= Len(tests)
        /\ masters[g].iterations = maxIterations
        /\ Cardinality(SlaveCalls(g)) = maxIterations
        /\ HandOffs(g) = {}

\* C15: no generation issues more than maxIterations worker dispatches: the
\* counter of a generation is 0 until it enters its loop, also after a
\* hand-off, and the dispatches issued are the counted iterations up to
\* maxIterations.
C15_DispatchesWithinBudget ==
    \A g \in 1..Len(masters) :
        /\ Cardinality(SlaveCalls(g)) <= maxIterations
        /\ masters[g].pc \in {"invoked", "called"} => masters[g].iterations = 0
        /\ masters[g].iterations >= 0
        /\ Cardinality(SlaveCalls(g)) = Min(masters[g].iterations, maxIterations)

\* a generation entered at the cursor of a hand-off (past 0) has used its
\* whole budget of at least two dispatches and handed off in its turn
C15_Witness ==
    \E g \in 1..Len(masters) :
        /\ masters[g].entry > 0
        /\ maxIterations >= 2
        /\ Cardinality(SlaveCalls(g)) = maxIterations
        /\ masters[g].iterations = maxIterations + 1
        /\ HandOffs(g) /= {}

\* C16: dispatchWork on an instance whose role is not master raises before
\* any effect: no worker dispatch, no hand-off, no slave invocation, no
\* further dispatchWork call, and the failed call stays failed.
C16_WrongRoleFatal ==
    role /= "master" =>
        /\ calls = <<>>
        /\ slaves = EmptyBag
        /\ Len(masters) = 1
        /\ masters[1].pc \in {"called", "fatal"}
        /\ masters[1].iterations = 0
        /\ masters[1].startIndex = masters[1].entry

\* dispatchWork has raised on a slave instance over a non-empty catalog
C16_Witness ==
    /\ role = "slave"
    /\ Len(tests) > 0
    /\ masters[1].pc = "fatal"

\* the calls of generation g in issue order, without the generation number
CallsOf(g) ==
    LET own == SelectSeq(calls, LAMBDA c : c.gen = g)
    IN  [k \in 1..Len(own) |-> [kind |-> own[k].kind,
                                startIndex |-> own[k].startIndex,
                                filesNames |-> own[k].filesNames,
                                batch |-> own[k].batch]]

IsPrefix(a, b) == Len(a) <= Len(b) /\ \A k \in 1..Len(a) : a[k] = b[k]

\* The calls that dispatchWork(start) and the generations it hands off to
\* issue over the catalog, whatever the mode: the loop of one generation
\* from the counter value iterations on, then (at most gens times) the
\* generation its hand-off starts (gens = 0: the one generation).
RECURSIVE CallsFrom(_, _, _)
CallsFrom(start, iterations, gens) ==
    IF ~ (start < Len(tests) /\ iterations <= maxIterations) THEN <<>>
    ELSE IF iterations + 1 > maxIterations
    THEN <<[kind |-> "master", startIndex |-> start,
            filesNames |-> <<>>, batch |-> <<>>]>>
           \o (IF gens > 0 THEN CallsFrom(start, 0, gens - 1) ELSE <<>>)
    ELSE LET r == subsetOfTests(tests, start, batchSize)
         IN  <<[kind |-> "slave", startIndex |-> start,
                filesNames |-> [k \in 1..Len(r[1]) |-> fileName(r[1][k].name)],
                batch |-> Ids(r[1])]>>
               \o CallsFrom(r[2], iterations + 1, gens)

\* the run is over: every dispatchWork invocation has returned or was
\* unwound by an exception, and no slave invocation is in flight
RunOver ==
    /\ \A g \in 1..Len(masters) : masters[g].pc \in {"done", "crashed"}
    /\ \A s \in BagToSet(slaves) : s.pc /= "invoked"

\* C26 (as claimed): over the same catalog and configuration the local and
\* the distributed mode issue the same sequence of worker dispatches (same
\* batches, same order) and hand-offs (same cursors): in either mode a
\* generation that is over has issued exactly the calls the catalog, the
\* configuration and its cursor determine.
C26_SameCallsBothModes ==
    (role = "master" /\ RunOver) =>
        \A g \in 1..Len(masters) :
            CallsOf(g) = CallsFrom(masters[g].entry, 0, 0)

\* C27: in distributed mode the master never waits for a slave (it is never
\* inside a slave's run, and no slave's exception reaches it), and every
\* worker dispatch of a generation is followed by exactly one pause that has
\* ended before the generation's next step: the pauses ended are the
\* dispatches issued, less the pause the generation is in.
C27_FireAndForgetWithPause ==
    env = "prod" =>
        \A g \in 1..Len(masters) :
            /\ masters[g].pc \notin {"inSlave", "inMaster", "crashed"}
            /\ masters[g].sleeps + (IF masters[g].pc = "sleep" THEN 1 ELSE 0)
                   = Cardinality(SlaveCalls(g))
            /\ masters[g].pc = "sleep" => masters[g].iterations >= 1

\* in distributed mode a generation has issued two worker dispatches and
\* ended two pauses while both slaves are still in flight
C27_Witness ==
    /\ env = "prod"
    /\ \E g \in 1..Len(masters) :
           /\ Cardinality(SlaveCalls(g)) = 2
           /\ masters[g].sleeps = 2
           /\ masters[g].pc = "loop"
    /\ \A s \in BagToSet(slaves) : s.pc = "invoked"
    /\ BagCardinality(slaves) >= 2

\* the same-name run that begins at cursor s is longer than batchSize
Stalled(s) ==
    /\ s + batchSize < Len(tests)
    /\ \A k \in s + 1 .. s + batchSize + 1 : tests[k].name = tests[s + 1].name

\* C31: when the same-name run that begins at the cursor is longer than
\* batchSize, the batch taken there is empty and the cursor returned is the
\* same cursor, and nothing rejects it: a generation entered at such a
\* cursor keeps it, dispatches empty batches only, returns only after a
\* hand-off, and its hand-off carries the unchanged cursor, at which the
\* run is again longer than batchSize.  So the generation the hand-off starts
\* is again one entered at such a cursor, and no generation ends the run.
C31_SilentStall ==
    /\ \A k \in 1..Len(calls) :
           (calls[k].kind = "slave" /\ Stalled(calls[k].startIndex)) =>
               calls[k].batch = <<>> /\ calls[k].filesNames = <<>>
    /\ \A g \in 1..Len(masters) :
           Stalled(masters[g].entry) =>
               /\ masters[g].startIndex = masters[g].entry
               /\ masters[g].newstartIndex = masters[g].entry
               /\ masters[g].startIndex < Len(tests)
               /\ masters[g].pc \in {"invoked", "called", "loop", "sleep", "done"}
               /\ \A k \in SlaveCalls(g) : calls[k].startIndex = masters[g].entry
               /\ \A k \in HandOffs(g) :
                      /\ calls[k].startIndex = masters[g].entry
                      /\ Stalled(calls[k].startIndex)
               /\ masters[g].pc = "done" => HandOffs(g) /= {}

\* a generation entered past cursor 0, where the run is longer than
\* batchSize, has dispatched its budget of two empty batches, handed off
\* with the cursor it was entered with, and returned
C31_Witness ==
    \E g \in 1..Len(masters) :
        /\ masters[g].entry > 0
        /\ Stalled(masters[g].entry)
        /\ masters[g].pc = "done"
        /\ Cardinality(SlaveCalls(g)) = 2
        /\ \A k \in SlaveCalls(g) : calls[k].batch = <<>>
        /\ \E k \in HandOffs(g) : calls[k].startIndex = masters[g].entry

\* C32: with maxIterations >= 1 and batchSize at least the longest same-name
\* run, a hand-off of a generation comes after a non-empty batch of that
\* generation and carries a cursor greater than the one the generation was
\* entered with.
C32_HandOffAdvances ==
    (maxIterations >= 1 /\ batchSize >= LongestRun(tests)) =>
        \A g \in 1..Len(masters) :
            \A k \in HandOffs(g) :
                /\ calls[k].startIndex > masters[g].entry
                /\ \E j \in SlaveCalls(g) : j < k /\ calls[j].batch /= <<>>

\* a generation entered past cursor 0 has handed off at a cursor beyond it,
\* after a batch that was trimmed to keep a run together
C32_Witness ==
    /\ maxIterations >= 1
    /\ batchSize >= LongestRun(tests)
    /\ \E g \in 1..Len(masters) :
           /\ masters[g].entry > 0
           /\ masters[g].pc = "done"
           /\ \E k \in HandOffs(g) : calls[k].startIndex > masters[g].entry
           /\ \E j \in SlaveCalls(g) :
                  /\ calls[j].batch /= <<>>
                  /\ Len(calls[j].batch) < batchSize

\* ===================================================== catalog builder
\* the tests of the definition files in build order: names and flags
mkDefs(names, actives) ==
    [i \in 1..Len(names) |-> [name |-> names[i], id |-> i, active |-> actives[i]]]

DefinitionLists ==
    UNION {{mkDefs(f, a) : f \in [1..n -> CatalogNames], a \in [1..n -> BOOLEAN]} :
              n \in 0..MaxTests}

\* the values the callers give to filesNames
FilesArgs == {None, Some(<<>>), Some(<<fileName("a")>>),
              Some(<<fileName("a"), fileName("b")>>)}

\* The callers of buildTests: dispatchWork and updatePublishers pass the
\* path alone, runTests the path and filesNames; none passes onlyActive, so
\* they get its default, True.  A direct call passes anything.
InitBuild ==
    /\ definitions \in DefinitionLists
    /\ caller \in {"dispatchWork", "runTests", "updatePublishers", "direct"}
    /\ filesArg \in FilesArgs
    /\ onlyActive \in BOOLEAN
    /\ caller \in {"dispatchWork", "updatePublishers"} => filesArg = None
    /\ caller = "runTests" => ~ filesArg.isNone
    /\ caller /= "direct" => onlyActive = TRUE
    /\ bpc = "start"
    /\ built = <<>>
    /\ files = <<>>
    /\ bexc = "none"
    /\ tests = <<>>
    /\ BatcherIdle
    /\ DispatchIdle
    /\ WorkerIdle
    /\ MatchIdle
    /\ EntryIdle

\* buildTests(relativePath, filesNames, onlyActive) is called and returns
BuildTests ==
    /\ bpc = "start"
    /\ built' = buildTests(definitions, filesArg, onlyActive)
    /\ bpc' = "built"
    /\ UNCHANGED <<definitions, caller, filesArg, onlyActive, files, bexc,
                   tests, batcherVars, dispatchVars, workerVars, matchVars, entryVars>>

NextBuild == BuildTests

SpecBuild == InitBuild /\ [][NextBuild]_vars

\* the definitions the call selects by file name: all of them without
\* filesNames
Selected(i) ==
    filesArg.isNone
      \/ \E k \in 1..Len(filesArg.list) :
             filesArg.list[k] = fileName(definitions[i].name)

\* C20: buildTests returns the selected tests with active = true when
\* onlyActive (the default, which dispatchWork and runTests get), and all
\* the selected tests otherwise, in the order of the unfiltered build: the
\* list a master dispatches from and the list a slave runs hold no inactive
\* test.
C20_OnlyActiveByDefault ==
    bpc = "built" =>
        /\ \A k \in 1..Len(built) : built[k] = definitions[built[k].id]
        /\ \A j, k \in 1..Len(built) : j < k => built[j].id < built[k].id
        /\ IdSet(built) = {i \in 1..Len(definitions) :
                              Selected(i) /\ (onlyActive => definitions[i].active)}
        /\ caller \in {"dispatchWork", "runTests"} =>
               \A k \in 1..Len(built) : built[k].active

\* dispatchWork has built its catalog from definitions with an inactive
\* test between two active ones: both active ones are in it, in order
C20_Witness ==
    /\ bpc = "built"
    /\ caller = "dispatchWork"
    /\ Len(built) >= 2
    /\ \E i, j, k \in 1..Len(definitions) :
           /\ i < j /\ j < k
           /\ definitions[i].active /\ ~ definitions[j].active
           /\ definitions[k].active
           /\ definitions[i].name = definitions[j].name

\* ======================================= catalog builder: the yaml files
\* A path is the sequence of its pieces; Python compares strings by code
\* point, of which only the order matters: '.' < '/' < 'a' < 'b'.
Code(c) == CASE c = ".yaml" -> 46 [] c = "/" -> 47 [] c = "a" -> 97 [] c = "b" -> 98

\* p < q for two strings
RECURSIVE LexLess(_, _)
LexLess(p, q) ==
    IF q = <<>> THEN FALSE
    ELSE IF p = <<>> THEN TRUE
    ELSE IF Code(Head(p)) /= Code(Head(q)) THEN Code(Head(p)) < Code(Head(q))
    ELSE LexLess(Tail(p), Tail(q))

\* glob(...): the matching paths, in an order the file system decides: any
\* list without repetition of the paths in S
Listings(S) ==
    {l \in [1..Cardinality(S) -> S] : \A i, j \in 1..Cardinality(S) : l[i] = l[j] => i = j}

\* the paths of the list found
Range(found) == {found[k] : k \in 1..Len(found)}

\* filePaths.sort() on the paths glob found
RECURSIVE sorted(_)
sorted(S) ==
    IF S = {} THEN <<>>
    ELSE LET m == CHOOSE x \in S : \A y \in S \ {x} : LexLess(x, y)
         IN  <<m>> \o sorted(S \ {m})

\* fp.split('/')[-1]
RECURSIVE baseName(_)
baseName(fp) ==
    IF \E k \in 1..Len(fp) : fp[k] = "/" THEN baseName(Tail(fp)) ELSE fp

\* x in seq
Contains(seq, x) == \E k \in 1..Len(seq) : seq[k] = x

\* TestManager.findTestFiles with the test `if filesNames:`, which an empty
\* list fails like None
findTestFilesTruthy(found, filesNames) ==
    LET filePaths == sorted(Range(found))
    IN  IF filesNames.isNone \/ filesNames.list = <<>> THEN filePaths
        ELSE SelectSeq(filePaths, LAMBDA fp : Contains(filesNames.list, baseName(fp)))

\* TestManager.findTestFiles without `filePaths.sort()`: the paths stay in
\* the order glob found them
findTestFilesUnsorted(found, filesNames) ==
    IF filesNames.isNone THEN found
    ELSE SelectSeq(found, LAMBDA fp : Contains(filesNames.list, baseName(fp)))

\* TestManager.findTestFiles(relativePath, filesNames), found being the list
\* glob returns for the pattern: sorted, then restricted to the paths whose
\* last component is in filesNames (`if filesNames != None:`)
findTestFiles(found, filesNames) ==
    LET filePaths == sorted(Range(found))
    IN  IF filesNames.isNone THEN filePaths
        ELSE SelectSeq(filePaths, LAMBDA fp : Contains(filesNames.list, baseName(fp)))

\* TestManager.loadtestDictsFromFilePaths: the parsed content of every file
loadtestDictsFromFilePaths(fs, testFilePaths) ==
    [k \in 1..Len(testFilePaths) |-> fs[testFilePaths[k]]]

\* testsFromYamlDict, the loop `for metricname in yamlDict['metrics']` from
\* the j-th metric on, acc being the tests appended so far.  A missing key is
\* a KeyError; a type that is neither 'quality' nor 'consistency' appends
\* nothing.
RECURSIVE metricsFrom(_, _, _)
metricsFrom(yamlDict, j, acc) ==
    IF j > Len(yamlDict.metrics) THEN [exc |-> "none", tests |-> acc]
    ELSE LET metricAttr == yamlDict.metrics[j]
             common == [name |-> yamlDict.name, type |-> yamlDict.type]
         IN  IF {"active", "tags", "fetchers", "publishers"} \ DOMAIN metricAttr /= {}
             THEN [exc |-> "KeyError", tests |-> <<>>]
             ELSE IF yamlDict.type = "quality"
             THEN metricsFrom(yamlDict, j + 1, Append(acc,
                      [name |-> yamlDict.name, type |-> yamlDict.type,
                       active |-> metricAttr.active, tags |-> metricAttr.tags,
                       fetchers |-> metricAttr.fetchers,
                       publishers |-> metricAttr.publishers]))
             ELSE IF yamlDict.type = "consistency"
             THEN IF "action" \notin DOMAIN yamlDict
                  THEN [exc |-> "KeyError", tests |-> <<>>]
                  ELSE metricsFrom(yamlDict, j + 1, Append(acc,
                           [name |-> yamlDict.name, type |-> yamlDict.type,
                            active |-> metricAttr.active, tags |-> metricAttr.tags,
                            fetchers |-> metricAttr.fetchers,
                            publishers |-> metricAttr.publishers,
                            action |-> yamlDict.action]))
             ELSE metricsFrom(yamlDict, j + 1, acc)

\* TestManager.testsFromYamlDict(yamlDict): the tests, or the KeyError
testsFromYamlDict(yamlDict) ==
    IF {"name", "description", "type", "team", "metrics"} \ DOMAIN yamlDict /= {}
    THEN [exc |-> "KeyError", tests |-> <<>>]
    ELSE metricsFrom(yamlDict, 1, <<>>)

\* TestManager.buildTestsFromDicts, from the k-th dict on: a KeyError is
\* raised again
RECURSIVE buildTestsFromDicts(_, _, _)
buildTestsFromDicts(testDicts, k, acc) ==
    IF k > Len(testDicts) THEN [exc |-> "none", tests |-> acc]
    ELSE LET r == testsFromYamlDict(testDicts[k])
         IN  IF r.exc /= "none" THEN [exc |-> r.exc, tests |-> <<>>]
             ELSE buildTestsFromDicts(testDicts, k + 1, acc \o r.tests)

\* TestManager.buildTests(relativePath, filesNames, onlyActive) over the
\* files fs, which glob lists in the order found: the list returned, or the
\* exception
buildTestsFromFiles(fs, found, filesNames, active) ==
    LET filePaths == findTestFiles(found, filesNames)
        testDicts == loadtestDictsFromFilePaths(fs, filePaths)
        r == buildTestsFromDicts(testDicts, 1, <<>>)
    IN  IF r.exc /= "none" THEN r
        ELSE [exc |-> "none",
              tests |-> IF active THEN SelectSeq(r.tests, isActive) ELSE r.tests]

\* the paths the pattern testsPath matches: a/a.yaml, a/b.yaml, b/a.yaml
Paths == {<<"a", "/", "a", ".yaml">>, <<"a", "/", "b", ".yaml">>,
          <<"b", "/", "a", ".yaml">>}

\* the keys of metricAttr['fetchers'], in declaration order: the keys of one
\* yaml mapping are distinct
FetcherKeys == <<"pg", "pg2">>

\* one metric of a definition file: n fetchers, one publisher; its tags name
\* the file and the metric
mkMetric(path, key, active, n) ==
    [key |-> key, active |-> active, tags |-> <<path, key>>,
     fetchers |-> [e \in 1..n |-> [name |-> FetcherKeys[e]]],
     publishers |-> <<[name |-> "dd1"]>>]

\* a metric without the key tags
mkMetricNoTags(key) ==
    [key |-> key, active |-> TRUE,
     fetchers |-> <<[name |-> "pg"]>>, publishers |-> <<[name |-> "dd1"]>>]

\* yamlDict['metrics'] of the file at path, in declaration order: no metric,
\* one, two (the second inactive), or two of which the second lacks tags
MetricLists(path) ==
    <<(<<>>),
      <<mkMetric(path, "metric1", TRUE, 1)>>,
      <<mkMetric(path, "metric1", TRUE, 2), mkMetric(path, "metric2", FALSE, 2)>>,
      <<mkMetric(path, "metric1", TRUE, 1), mkMetricNoTags("metric2")>>>>

\* what a definition file holds: its name, its kind (a Quality definition, a
\* Consistency definition with or without the key action, a definition of
\* another type, a definition without the key team) and its metrics
Contents ==
    [name : CatalogNames,
     kind : {"quality", "consistency", "noAction", "sanity", "noTeam"},
     metrics : DOMAIN MetricLists(<<>>)]

\* the parsed yaml of the file at path with content c
yamlDictOf(path, c) ==
    LET ms == MetricLists(path)[c.metrics]
    IN  CASE c.kind = "quality" ->
                 [name |-> c.name, description |-> "d", type |-> "quality",
                  team |-> "t", metrics |-> ms]
          [] c.kind = "consistency" ->
                 [name |-> c.name, description |-> "d", type |-> "consistency",
                  team |-> "t", metrics |-> ms, action |-> "difference"]
          [] c.kind = "noAction" ->
                 [name |-> c.name, description |-> "d", type |-> "consistency",
                  team |-> "t", metrics |-> ms]
          [] c.kind = "sanity" ->
                 [name |-> c.name, description |-> "d", type |-> "sanity",
                  team |-> "t", metrics |-> ms]
          [] c.kind = "noTeam" ->
                 [name |-> c.name, description |-> "d", type |-> "quality",
                  metrics |-> ms]

\* buildTests is called over any set of files at the paths: by dispatchWork
\* (path alone), by runTests (path and filesNames), or directly with
\* onlyActive = False
InitLoad ==
    /\ \E S \in SUBSET Paths : \E c \in [S -> Contents] :
           files = [q \in S |-> yamlDictOf(q, c[q])]
    /\ \E a \in {<<None, TRUE, "dispatchWork">>,
                 <<Some(<<fileName("a")>>), TRUE, "runTests">>,
                 <<None, FALSE, "direct">>} :
           filesArg = a[1] /\ onlyActive = a[2] /\ caller = a[3]
    /\ definitions = <<>>
    /\ bpc = "start"
    /\ built = <<>>
    /\ bexc = "none"
    /\ tests = <<>>
    /\ BatcherIdle
    /\ DispatchIdle
    /\ WorkerIdle
    /\ MatchIdle
    /\ EntryIdle

\* buildTests(relativePath, filesNames, onlyActive) returns or raises
LoadTests ==
    /\ bpc = "start"
    /\ \E found \in Listings(DOMAIN files) :
           LET r == buildTestsFromFiles(files, found, filesArg, onlyActive)
           IN  /\ built' = r.tests
               /\ bexc' = r.exc
    /\ bpc' = IF bexc' = "none" THEN "built" ELSE "raised"
    /\ UNCHANGED <<definitions, caller, filesArg, onlyActive, files,
                   tests, batcherVars, dispatchVars, workerVars, matchVars, entryVars>>

NextLoad == LoadTests

SpecLoad == InitLoad /\ [][NextLoad]_vars

\* the file and the metric a built test comes from (its tags name them)
FileOf(t) == t.tags[1]
MetricPos(t) ==
    CHOOSE m \in 1..Len(files[FileOf(t)].metrics) :
        files[FileOf(t)].metrics[m].key = t.tags[2]

\* the files the call selects: all of them without filesNames
SelectedFile(q) ==
    filesArg.isNone \/ Contains(filesArg.list, baseName(q))

\* C21 (as claimed): in the catalog buildTests returns the definitions
\* appear in lexicographic path order, the tests of one definition keep
\* their declaration order, and all tests sharing a name occupy consecutive
\* positions, for every set of definition files.
C21_CatalogOrder ==
    bpc = "built" =>
        /\ \A j, k \in 1..Len(built) :
               j < k =>
                   \/ LexLess(FileOf(built[j]), FileOf(built[k]))
                   \/ /\ FileOf(built[j]) = FileOf(built[k])
                      /\ MetricPos(built[j]) < MetricPos(built[k])
        /\ \A j, k \in 1..Len(built) :
               built[j].name = built[k].name => SameRun(built, j, k)

\* a required key of the definition is missing: a top-level key, the key
\* action of a Consistency definition, or a key of one of its metrics
Malformed(yamlDict) ==
    \/ {"name", "description", "type", "team", "metrics"} \ DOMAIN yamlDict /= {}
    \/ yamlDict.type = "consistency" /\ "action" \notin DOMAIN yamlDict
    \/ \E m \in 1..Len(yamlDict.metrics) :
           {"active", "tags", "fetchers", "publishers"} \ DOMAIN yamlDict.metrics[m] /= {}

\* C22 (as claimed): when a definition of the set given to buildTests is
\* malformed the call raises and returns no catalog, and a catalog that is
\* returned omits no test of a definition: every metric of every selected
\* file (every active one under onlyActive) has its test in the catalog.
C22_MalformedIsFatal ==
    bpc \in {"built", "raised"} =>
        /\ (\E q \in DOMAIN files : SelectedFile(q) /\ Malformed(files[q]))
               => (bpc = "raised" /\ built = <<>>)
        /\ bpc = "built" =>
               \A q \in DOMAIN files :
                   SelectedFile(q) =>
                       \A m \in 1..Len(files[q].metrics) :
                           (onlyActive => files[q].metrics[m].active) =>
                               \E k \in 1..Len(built) :
                                   built[k].tags = <<q, files[q].metrics[m].key>>

\* C23 (as claimed): every test of a built catalog has the number of
\* data-source entries its kind requires: two for a Consistency test, one
\* for a Quality test.
C23_FetcherCountByKind ==
    bpc = "built" =>
        \A k \in 1..Len(built) :
            Len(built[k].fetchers) = IF built[k].type = "consistency" THEN 2 ELSE 1

\* ================================================= test filter: isTest
\* self.__dict__ of a test built by testsFromYamlDict: a ConsistencyTest
\* has the attribute action, a QualityTest has not
Instances ==
    {[name |-> n, type |-> "quality", active |-> f] :
         n \in CatalogNames, f \in BOOLEAN}
      \cup {[name |-> n, type |-> "consistency", active |-> f, action |-> c] :
               n \in CatalogNames, f \in BOOLEAN, c \in {"difference", "division"}}

\* **criteria of a call: the keyword names in call order (the order
\* criteria.items() yields them) and the value given for each
Criteria ==
    LET One(n) == CASE n = "name"   -> {[name |-> v] : v \in CatalogNames}
                    [] n = "active" -> {[active |-> v] : v \in BOOLEAN}
                    [] n = "action" -> {[action |-> v] : v \in {"difference", "division"}}
        Keys == {"name", "active", "action"}
        Two(m, n) == {[k \in {m, n} |-> IF k = m THEN x[m] ELSE y[n]] :
                         x \in One(m), y \in One(n)}
    IN  {[order |-> <<>>, vals |-> <<>>]}
          \cup UNION {{[order |-> <<n>>, vals |-> v] : v \in One(n)} : n \in Keys}
          \cup UNION {{[order |-> <<mn[1], mn[2]>>, vals |-> v] :
                          v \in Two(mn[1], mn[2])} :
                         mn \in {x \in Keys \X Keys : x[1] /= x[2]}}

\* QualityTest.isTest(**criteria), the loop from the k-th keyword on: the
\* value returned, or the KeyError of `self.__dict__[name]`
RECURSIVE isTestFrom(_, _, _)
isTestFrom(self, kw, k) ==
    IF k > Len(kw.order)
    THEN [exc |-> "none", value |-> TRUE]
    ELSE LET name == kw.order[k]
         IN  IF name \notin DOMAIN self
             THEN [exc |-> "KeyError", key |-> name]
             ELSE IF self[name] /= kw.vals[name]
             THEN [exc |-> "none", value |-> FALSE]
             ELSE isTestFrom(self, kw, k + 1)

InitIsTest ==
    /\ instance \in Instances
    /\ kwargs \in Criteria
    /\ mpc = "start"
    /\ outcome = <<>>
    /\ tests = <<>>
    /\ BatcherIdle
    /\ DispatchIdle
    /\ WorkerIdle
    /\ BuildIdle
    /\ EntryIdle

\* test.isTest(**criteria) is called: it reads the attributes and assigns none
IsTest ==
    /\ mpc = "start"
    /\ outcome' = isTestFrom(instance, kwargs, 1)
    /\ mpc' = "called"
    /\ UNCHANGED <<instance, kwargs, tests, batcherVars, dispatchVars, workerVars,
                   buildVars, entryVars>>

NextIsTest == IsTest

SpecIsTest == InitIsTest /\ [][NextIsTest]_vars

\* every supplied pair equals the corresponding attribute of the instance
AllPairsEqual ==
    \A k \in 1..Len(kwargs.order) :
        /\ kwargs.order[k] \in DOMAIN instance
        /\ instance[kwargs.order[k]] = kwargs.vals[kwargs.order[k]]

\* C30 (as claimed): for every test and every set of supplied name/value
\* pairs, isTest returns true if and only if every supplied pair equals the
\* corresponding attribute of the instance (true for the empty set).
C30_IsTestIffAllPairsEqual ==
    mpc = "called" =>
        /\ outcome.exc = "none"
        /\ outcome.value = AllPairsEqual

\* ============================================== worker: runTests pipeline
MaxBatch == 2       \* largest number of tests one slave run builds
Values   == {-1, 0}     \* values a query returns

\* yamlDict['type'] and, for a consistency test, yamlDict['action'] of a
\* definition.  The action is whatever string the file holds: computeResult
\* knows 'difference' and 'division'.
TestKinds == {[type |-> "quality"],
              [type |-> "consistency", action |-> "difference"],
              [type |-> "consistency", action |-> "division"],
              [type |-> "consistency", action |-> "ratio"]}

\* runConfiguration.fetchers: the data sources FetcherManager.__init__ opens
ConfiguredFetchers == {"pg", "pg2"}

\* runConfiguration.publishers: the Datadog destinations of the run
ConfiguredPublishers == <<"dd1", "dd2">>

\* metricAttr['publishers'] of a definition: the destinations a test declares
TargetLists == {<<>>, <<"dd1">>, <<"dd1", "dd2">>}

\* `x.result = v` / `x['result'] = v` on an object or dict x that may not
\* have the attribute yet
setResult(x, v) ==
    [k \in DOMAIN x \cup {"result"} |-> IF k = "result" THEN v ELSE x[k]]

\* the attribute / key result has been assigned
hasResult(x) == "result" \in DOMAIN x

\* what the database answers to one query:
\*   rows v          fetchall() returns rows, v is the first column of the first
\*   zeroRows        fetchall() returns no row
\*   ProgrammingError / InternalError   raised by fetchall()
\*   executeError    cur.execute() itself raises (it stands outside the try)
DbAnswers ==
    {[kind |-> "rows", value |-> v] : v \in Values}
      \cup {[kind |-> k, value |-> 0] :
               k \in {"zeroRows", "ProgrammingError", "InternalError", "executeError"}}

\* testsFromYamlDict: a quality test has one fetcher entry, a consistency
\* test two; no entry has a result and the test has no result attribute yet.
\* targets are the names of the destinations the definition declares.
mkTest(i, k, targets) ==
    LET pubs == [j \in 1..Len(targets) |-> [name |-> targets[j]]]
    IN  IF k.type = "quality"
        THEN [name |-> "t", id |-> i, type |-> k.type,
              fetchers |-> <<[name |-> FetcherKeys[1]]>>, publishers |-> pubs]
        ELSE [name |-> "t", id |-> i, type |-> k.type, action |-> k.action,
              fetchers |-> <<[name |-> FetcherKeys[1]], [name |-> FetcherKeys[2]]>>,
              publishers |-> pubs]

\* PostgresDB.fetchResults(details): the value, or the exception raised
pgFetchResults(answer) ==
    CASE answer.kind = "rows" ->
             [exc |-> "none", value |-> answer.value]
      [] answer.kind = "zeroRows" ->
             [exc |-> "FetchError", value |-> "Query returned zero rows"]
      [] answer.kind = "ProgrammingError" ->
             [exc |-> "FetchError", value |-> "SQL Error"]
      [] answer.kind = "InternalError" ->
             [exc |-> "FetchError", value |-> "pg db error"]
      [] OTHER ->
             [exc |-> "psycopg2.Error", value |-> "execute"]

\* FetcherManager.fetchResults: `except FetchError: pass`
caught(exc) == exc = "FetchError"

\* FetcherManager.fetchResults: an `else` clause that runs whatever the try did
elseClauseAlways(exc) == TRUE

\* FetcherManager.fetchResults: the `else` clause of the try runs only when
\* the try block raised nothing
elseClause(exc) == exc = "none"

\* the quotient x / y of Python's true division, y /= 0
Quotient(x, y) == [num |-> x, den |-> y]

\* computeResult with the operands of the difference exchanged
computeResultSwapped(test) ==
    IF test.type = "quality"
    THEN [exc |-> "none", assigns |-> 1,
          test |-> setResult(test, test.fetchers[1].result)]
    ELSE IF test.action = "difference"
    THEN [exc |-> "none", assigns |-> 1,
          test |-> setResult(test, test.fetchers[2].result
                                       - test.fetchers[1].result)]
    ELSE [exc |-> "none", assigns |-> 0, test |-> test]

\* QualityTest.computeResult / ConsistencyTest.computeResult: the test after
\* the call, the number of assignments to result, or the exception raised
computeResult(test) ==
    IF test.type = "quality"
    THEN [exc |-> "none", assigns |-> 1,
          test |-> setResult(test, test.fetchers[1].result)]
    ELSE IF test.action = "difference"
    THEN [exc |-> "none", assigns |-> 1,
          test |-> setResult(test, test.fetchers[1].result
                                       - test.fetchers[2].result)]
    ELSE IF test.action = "division"
    THEN IF test.fetchers[2].result = 0
         THEN [exc |-> "ZeroDivisionError", assigns |-> 0, test |-> test]
         ELSE [exc |-> "none", assigns |-> 1,
               test |-> setResult(test, Quotient(test.fetchers[1].result,
                                                 test.fetchers[2].result))]
    ELSE [exc |-> "none", assigns |-> 0, test |-> test]

\* PublisherManager.getTestsForPublisher(publisher, tests)
getTestsForPublisher(publisher, tsts) ==
    SelectSeq(tsts, LAMBDA t :
        \E k \in 1..Len(t.publishers) : t.publishers[k].name = publisher)

\* DatadogPublisher.publishResults(tests): a message is built for every test
\* from test.result, then the batch is sent; an error response is only
\* logged.  The exception raised, or "none".
ddPublishResults(tsts) ==
    IF \E k \in 1..Len(tsts) : ~ hasResult(tsts[k])
    THEN "AttributeError"
    ELSE "none"

\* PublisherManager.publishResults: `except PublishError: pass`
caughtPublish(exc) == exc = "PublishError"

\* the state of a slave after BigEye.__init__ (the fetchers' connections are
\* open) and buildTests(testsPath, filesNames)
InitWorker ==
    /\ \E n \in 0..MaxBatch :
           \E kinds \in [1..n -> TestKinds] :
               \E targets \in [1..n -> TargetLists] :
                   wtests = [i \in 1..n |-> mkTest(i, kinds[i], targets[i])]
    /\ wpc = "built"
    /\ ti = 0 /\ fi = 0
    /\ failed = [i \in 1..Len(wtests) |-> "none"]
    /\ testsWithResults = <<>>
    /\ published = <<>>
    /\ wexc = "none"
    /\ publishers = ConfiguredPublishers
    /\ pi = 0
    /\ delivered = <<>>
    /\ assigned = [i \in 1..Len(wtests) |-> 0]
    /\ conns = ConfiguredFetchers
    /\ warnings = <<>>
    /\ queries = <<>>
    /\ tests = <<>>
    /\ BatcherIdle
    /\ DispatchIdle
    /\ BuildIdle
    /\ MatchIdle
    /\ EntryIdle

workerFrame == <<tests, batcherVars, dispatchVars, buildVars, matchVars, entryVars>>

\* runTests: `if len(tests) > 0:` and the entry of fetchResults
RunTests ==
    /\ wpc = "built"
    /\ IF Len(wtests) > 0
       THEN wpc' = "fetch" /\ ti' = 1 /\ fi' = 1
       ELSE wpc' = "done" /\ UNCHANGED <<ti, fi>>
    /\ UNCHANGED <<wtests, failed, testsWithResults, published, wexc,
                   publishers, pi, delivered, assigned, conns, warnings, queries,
                   workerFrame>>

\* runConfiguration.maxTestDuration (seconds)
maxTestDuration == 1

\* the time one call fetcher.fetchResults takes: within maxTestDuration, beyond it
Durations == {0, 2}

\* a database that always answers within maxTestDuration
FastDurations == {0}

\* fetchResults: a duration check that raises FetchError on an overrun
afterOverrunAbort(exc, testDuration) ==
    IF exc = "none" /\ testDuration > maxTestDuration THEN "FetchError" ELSE exc

\* fetchResults: `if testDuration > maxTestDuration: self.logger.warning(...)`
\* raises nothing: the try block goes on as the call of the fetcher left it
afterOverrun(exc, testDuration) == exc

\* fetchResults: a loop that stays on the test whose fetch failed
afterFailureRetry(i) == i

\* fetchResults: `for test in tests`, after `except FetchError: pass` the loop
\* goes to the next test
afterFailure(i) == i + 1

\* fetchResults: a try block inside the loop over the entries, so that the
\* entry after the failed one is resolved (n entries, test i, failed entry e)
afterFailedEntryContinue(n, i, e) ==
    IF e < n THEN <<i, e + 1>> ELSE <<afterFailure(i), 1>>

\* fetchResults: the try block holds the whole loop `for fetcherDict in
\* test.fetchers`, so a FetchError at entry e leaves the loop over the entries
\* and the next position is the first entry of the next test
afterFailedEntry(n, i, e) == <<afterFailure(i), 1>>

\* FetcherManager.extractFetcher(fetcherName): the fetcher of that name among
\* the fetchers the manager opened, or the exception raised when there is none
extractFetcher(fetcherName) ==
    IF fetcherName \in ConfiguredFetchers
    THEN [exc |-> "none", value |-> fetcherName]
    ELSE [exc |-> "Exception", value |-> "Could not find fetcher"]

\* FetcherManager.fetchResults, one data-source entry of one test:
\* extractFetcher(fetcherDict['name']), then fetcher.fetchResults(details)
\* with the answer of the database, which takes testDuration; then the
\* duration check.
Fetch(answer, testDuration) ==
    LET test == wtests[ti]
        fetcher == extractFetcher(test.fetchers[fi].name)
        r == IF fetcher.exc = "none" THEN pgFetchResults(answer) ELSE fetcher
        exc == afterOverrun(r.exc, testDuration)
        pos == afterFailedEntry(Len(test.fetchers), ti, fi)
    IN  /\ wpc = "fetch"
        /\ queries' = IF fetcher.exc = "none"
                      THEN Append(queries, <<ti, fi>>)
                      ELSE queries
        /\ wtests' = IF r.exc = "none"
                     THEN [wtests EXCEPT ![ti].fetchers[fi] = setResult(@, r.value)]
                     ELSE wtests
        /\ warnings' = IF r.exc = "none" /\ testDuration > maxTestDuration
                       THEN Append(warnings, ti)
                       ELSE warnings
        /\ IF exc = "none"
           THEN /\ IF fi < Len(test.fetchers)
                   THEN /\ fi' = fi + 1
                        /\ UNCHANGED <<ti, wpc, testsWithResults>>
                   ELSE \* the try block is through: the else clause keeps the test
                        /\ testsWithResults' =
                               IF elseClause(exc)
                               THEN Append(testsWithResults, ti)
                               ELSE testsWithResults
                        /\ fi' = 1
                        /\ ti' = ti + 1
                        /\ wpc' = IF ti' > Len(wtests) THEN "compute" ELSE "fetch"
                /\ UNCHANGED <<failed, wexc>>
           ELSE IF caught(exc)
           THEN \* except FetchError: pass -- the test is dropped
                /\ failed' = [failed EXCEPT ![ti] = r.exc]
                /\ testsWithResults' =
                       IF elseClause(exc)
                       THEN Append(testsWithResults, ti)
                       ELSE testsWithResults
                /\ fi' = pos[2]
                /\ ti' = pos[1]
                /\ wpc' = IF ti' > Len(wtests) THEN "compute" ELSE "fetch"
                /\ UNCHANGED wexc
           ELSE \* the exception leaves fetchResults and runTests
                /\ wpc' = "raised"
                /\ wexc' = exc
                /\ UNCHANGED <<failed, testsWithResults, ti, fi>>
        /\ UNCHANGED <<published, publishers, pi, delivered, assigned, conns,
                       workerFrame>>

\* TestManager.computeResults: test.computeResult() for the next test of
\* testsWithResults (ti counts the tests already computed, from Len(wtests)+1)
Compute ==
    LET k == ti - Len(wtests)
    IN  /\ wpc = "compute"
        /\ k <= Len(testsWithResults)
        /\ LET r == computeResult(wtests[testsWithResults[k]])
           IN  IF r.exc = "none"
               THEN /\ wtests' = [wtests EXCEPT ![testsWithResults[k]] = r.test]
                    /\ assigned' = [assigned EXCEPT ![testsWithResults[k]] =
                                        @ + r.assigns]
                    /\ ti' = ti + 1
                    /\ UNCHANGED <<wpc, wexc>>
               ELSE /\ wpc' = "raised"
                    /\ wexc' = r.exc
                    /\ UNCHANGED <<wtests, assigned, ti>>
        /\ UNCHANGED <<fi, failed, testsWithResults, published, publishers, pi,
                       delivered, conns, warnings, queries,
                   workerFrame>>

\* runTests: computeResults has returned,
\* publisherManager.publishResults(testsWithResults) is entered
Publish ==
    /\ wpc = "compute"
    /\ ti - Len(wtests) > Len(testsWithResults)
    /\ published' = Append(published, testsWithResults)
    /\ wpc' = "publish"
    /\ pi' = 1
    /\ UNCHANGED <<wtests, ti, fi, failed, testsWithResults, wexc, publishers,
                   delivered, assigned, conns, warnings, queries,
                   workerFrame>>

\* PublisherManager.publishResults, one turn of `for p in self.publishers`:
\* the tests of the destination are selected and handed to it
PublishTo ==
    LET p == publishers[pi]
        handed == [k \in 1..Len(testsWithResults) |-> wtests[testsWithResults[k]]]
        testsForThisPublisher == getTestsForPublisher(p, handed)
        exc == ddPublishResults(testsForThisPublisher)
    IN  /\ wpc = "publish"
        /\ pi <= Len(publishers)
        /\ delivered' = Append(delivered, [publisher |-> p,
                                           tests |-> Ids(testsForThisPublisher),
                                           exc |-> exc])
        /\ IF exc = "none" \/ caughtPublish(exc)
           THEN pi' = pi + 1 /\ UNCHANGED <<wpc, wexc>>
           ELSE \* the exception leaves publishResults and runTests
                wpc' = "raised" /\ wexc' = exc /\ UNCHANGED pi
        /\ UNCHANGED <<wtests, ti, fi, failed, testsWithResults, published,
                       publishers, assigned, conns, warnings, queries,
                   workerFrame>>

\* PublisherManager.publishResults: the loop over the destinations is
\* through, publishResults and runTests return
PublishReturn ==
    /\ wpc = "publish"
    /\ pi > Len(publishers)
    /\ wpc' = "done"
    /\ UNCHANGED <<wtests, ti, fi, failed, testsWithResults, published, wexc,
                   publishers, pi, delivered, assigned, conns, warnings, queries,
                   workerFrame>>

\* BigEye.tearDown on an instance of role r with the connections c open:
\* FetcherManager.tearDown closes every fetcher, for a slave only
tearDown(r, c) == IF r = "slave" THEN {} ELSE c

\* the caller of the slave instance calls tearDown() once runTests has
\* returned or raised
TearDown ==
    /\ wpc \in {"done", "raised"}
    /\ conns /= {}
    /\ conns' = tearDown("slave", conns)
    /\ UNCHANGED <<wtests, wpc, ti, fi, failed, testsWithResults, published, wexc,
                   publishers, pi, delivered, assigned, warnings, queries,
                   workerFrame>>

\* executeResponsabilites has returned or raised and the invocation of the
\* slave ends.  runTests closes no connection and has no try/finally: the
\* connections are closed only if the caller has called tearDown.
EntryEnd ==
    /\ wpc \in {"done", "raised"}
    /\ wpc' = "ended"
    /\ UNCHANGED <<wtests, ti, fi, failed, testsWithResults, published, wexc,
                   publishers, pi, delivered, assigned, conns, warnings, queries,
                   workerFrame>>

NextWorker ==
    \/ RunTests
    \/ \E answer \in DbAnswers : \E d \in FastDurations : Fetch(answer, d)
    \/ Compute
    \/ Publish
    \/ PublishTo
    \/ PublishReturn
    \/ TearDown
    \/ EntryEnd

SpecWorker == InitWorker /\ [][NextWorker]_vars

\* The slave's run over a batch of Quality and difference tests that all
\* declare the first destination, with a database whose answers may take
\* longer than maxTestDuration.
InitOverrun ==
    /\ \E n \in 0..MaxBatch :
           \E kinds \in [1..n -> {k \in TestKinds :
                                     k.type = "quality" \/ k.action = "difference"}] :
               wtests = [i \in 1..n |-> mkTest(i, kinds[i], <<ConfiguredPublishers[1]>>)]
    /\ wpc = "built"
    /\ ti = 0 /\ fi = 0
    /\ failed = [i \in 1..Len(wtests) |-> "none"]
    /\ testsWithResults = <<>>
    /\ published = <<>>
    /\ wexc = "none"
    /\ publishers = ConfiguredPublishers
    /\ pi = 0
    /\ delivered = <<>>
    /\ assigned = [i \in 1..Len(wtests) |-> 0]
    /\ conns = ConfiguredFetchers
    /\ warnings = <<>>
    /\ queries = <<>>
    /\ tests = <<>>
    /\ BatcherIdle
    /\ DispatchIdle
    /\ BuildIdle
    /\ MatchIdle
    /\ EntryIdle

NextOverrun ==
    \/ RunTests
    \/ \E answer \in DbAnswers : \E d \in Durations : Fetch(answer, d)
    \/ Compute
    \/ Publish
    \/ PublishTo
    \/ PublishReturn
    \/ TearDown
    \/ EntryEnd

SpecOverrun == InitOverrun /\ [][NextOverrun]_vars

\* the values of the data sources computeResult is applied to
ComputeValues == -2 .. 2

\* a test of kind k whose data-source entries hold the values vs
mkFetched(k, vs) ==
    LET t == mkTest(1, k, <<ConfiguredPublishers[1]>>)
    IN  [t EXCEPT !.fetchers = [e \in 1..Len(t.fetchers) |->
                                   setResult(t.fetchers[e], vs[e])]]

\* The slave after fetchResults has returned one test with every data source
\* resolved: computeResults is about to call computeResult on it.
InitCompute ==
    /\ \E k \in TestKinds : \E vs \in [1..2 -> ComputeValues] :
           wtests = <<mkFetched(k, vs)>>
    /\ wpc = "compute"
    /\ ti = 2 /\ fi = 1
    /\ failed = <<"none">>
    /\ testsWithResults = <<1>>
    /\ published = <<>>
    /\ wexc = "none"
    /\ publishers = ConfiguredPublishers
    /\ pi = 0
    /\ delivered = <<>>
    /\ assigned = <<0>>
    /\ conns = ConfiguredFetchers
    /\ warnings = <<>>
    /\ queries = [e \in 1..Len(wtests[1].fetchers) |-> <<1, e>>]
    /\ tests = <<>>
    /\ BatcherIdle
    /\ DispatchIdle
    /\ BuildIdle
    /\ MatchIdle
    /\ EntryIdle

NextCompute == Compute

\* metricAttr['fetchers'] keys of a definition: the configured data sources,
\* and a name no configured fetcher has
FetcherNames == {"pg", "pg2", "mysql"}

\* a test of kind k whose data-source entries name the fetchers `names`
mkTestOn(i, k, targets, names) ==
    LET t == mkTest(i, k, targets)
    IN  [t EXCEPT !.fetchers = [e \in 1..Len(t.fetchers) |-> [name |-> names[e]]]]

\* The slave's run over a batch of Quality and difference tests that all
\* declare the first destination and whose data-source entries name any
\* fetcher, configured or not.
InitFetchers ==
    /\ \E n \in 0..MaxBatch :
           \E kinds \in [1..n -> {k \in TestKinds :
                                     k.type = "quality" \/ k.action = "difference"}] :
               \E names \in [1..n -> {f \in [1..2 -> FetcherNames] : f[1] /= f[2]}] :
                   wtests = [i \in 1..n |->
                                mkTestOn(i, kinds[i], <<ConfiguredPublishers[1]>>,
                                         names[i])]
    /\ wpc = "built"
    /\ ti = 0 /\ fi = 0
    /\ failed = [i \in 1..Len(wtests) |-> "none"]
    /\ testsWithResults = <<>>
    /\ published = <<>>
    /\ wexc = "none"
    /\ publishers = ConfiguredPublishers
    /\ pi = 0
    /\ delivered = <<>>
    /\ assigned = [i \in 1..Len(wtests) |-> 0]
    /\ conns = ConfiguredFetchers
    /\ warnings = <<>>
    /\ queries = <<>>
    /\ tests = <<>>
    /\ BatcherIdle
    /\ DispatchIdle
    /\ BuildIdle
    /\ MatchIdle
    /\ EntryIdle

NextFetchers ==
    \/ RunTests
    \/ \E answer \in DbAnswers : \E d \in FastDurations : Fetch(answer, d)
    \/ Compute
    \/ Publish
    \/ PublishTo
    \/ PublishReturn
    \/ TearDown
    \/ EntryEnd

SpecFetchers == InitFetchers /\ [][NextFetchers]_vars

SpecCompute == InitCompute /\ [][NextCompute]_vars

\* -------------------------------------------------- worker: the claims
InSeq(x, seq) == \E k \in 1..Len(seq) : seq[k] = x

\* every data-source entry of test i has its value
Resolved(i) == \A e \in 1..Len(wtests[i].fetchers) : hasResult(wtests[i].fetchers[e])

\* the fetch loop is past test i
Fetched(i) == i < ti

\* runTests has returned normally (the invocation may have ended since)
Returned == wpc = "done" \/ (wpc = "ended" /\ wexc = "none")

\* publishResults was entered and has been left, by return or by exception
LeftPublish == published /= <<>> /\ wpc \in {"done", "raised", "ended"}

\* C4 (as claimed): a data source signalling a fetch failure (no rows, query
\* error, internal error) drops exactly the test it belongs to: the failure
\* never leaves fetchResults, every other test the loop has passed is
\* resolved and in the successful set, and a run that returns has handed to
\* publishing exactly the tests without a fetch failure, each with a
\* computed result.
C4_FetchFailureIsolated ==
    /\ wexc /= "FetchError"
    /\ \A i \in 1..Len(wtests) :
           Fetched(i) =>
               IF failed[i] /= "none"
               THEN ~ InSeq(i, testsWithResults)
               ELSE InSeq(i, testsWithResults) /\ Resolved(i)
    /\ (Returned /\ \E j \in 1..Len(wtests) : failed[j] /= "none") =>
           /\ published = <<testsWithResults>>
           /\ \A i \in 1..Len(wtests) :
                  IF failed[i] /= "none"
                  THEN ~ InSeq(i, published[1]) /\ ~ hasResult(wtests[i])
                  ELSE InSeq(i, published[1]) /\ hasResult(wtests[i])

\* test i is a Consistency test with the ratio action whose second value is 0
ZeroDivisor(i) ==
    /\ wtests[i].type = "consistency"
    /\ wtests[i].action = "division"
    /\ hasResult(wtests[i].fetchers[2])
    /\ wtests[i].fetchers[2].result = 0

\* C10 (as claimed): a ratio test whose second value is 0 never gets a
\* result, and its domain error does not end the pipeline.
C10_ZeroDivisorIsolated ==
    \A i \in 1..Len(wtests) :
        ZeroDivisor(i) =>
            /\ ~ hasResult(wtests[i])
            /\ ~ (wexc = "ZeroDivisionError")

\* C11 (as claimed): an exception raised by one destination's publishResults
\* does not leave PublisherManager.publishResults, and once publishResults
\* has been left every configured destination has been called.
C11_PublishFailureIsolated ==
    /\ \A k \in 1..Len(delivered) :
           delivered[k].exc /= "none" => wexc /= delivered[k].exc
    /\ LeftPublish => Len(delivered) = Len(publishers)

\* the tests of the successful set that declare destination p, in batch order
DeclaredFor(p) ==
    SelectSeq(testsWithResults, LAMBDA i :
        \E k \in 1..Len(wtests[i].publishers) : wtests[i].publishers[k].name = p)

\* C12 (as claimed): every call of a destination hands it exactly the tests
\* of the successful set that declare it, in batch order, and once
\* publishResults has been left every configured destination has got them.
C12_ExactTestsPerDestination ==
    /\ \A j \in 1..Len(delivered) :
           /\ delivered[j].publisher = publishers[j]
           /\ delivered[j].tests = DeclaredFor(publishers[j])
    /\ LeftPublish =>
           \A j \in 1..Len(publishers) :
               DeclaredFor(publishers[j]) /= <<>> => j <= Len(delivered)

\* C13 (as claimed): when a worker invocation has ended, by return or by
\* exception, no data-source connection it opened is still open.
C13_ConnectionsReleased ==
    wpc = "ended" => conns = {}

\* C18: within one run result is assigned to a test at most once, only to a
\* test of the successful set, and a test is in the successful set only when
\* every one of its data-source entries is resolved; a test with a failed
\* data source is not in the set, is never assigned a result and has none.
C18_ResultOnceWhenResolved ==
    \A i \in 1..Len(wtests) :
        /\ assigned[i] <= 1
        /\ hasResult(wtests[i]) <=> assigned[i] = 1
        /\ assigned[i] = 1 => InSeq(i, testsWithResults)
        /\ InSeq(i, testsWithResults) => (Resolved(i) /\ failed[i] = "none")
        /\ failed[i] /= "none" => (assigned[i] = 0 /\ ~ hasResult(wtests[i]))

\* the run returned; one test has its result, assigned once, and a two-entry
\* test whose first entry was resolved before the second one failed has none
C18_Witness ==
    /\ Returned
    /\ \E i, j \in 1..Len(wtests) :
           /\ assigned[i] = 1 /\ hasResult(wtests[i])
           /\ failed[j] /= "none"
           /\ hasResult(wtests[j].fetchers[1])
           /\ ~ hasResult(wtests[j])

\* C19 (as claimed): every test handed to a destination has its result.
C19_PublishedHaveResult ==
    \A k \in 1..Len(delivered) :
        \A n \in 1..Len(delivered[k].tests) :
            hasResult(wtests[delivered[k].tests[n]])

\* the value the rule of test i gives for the values of its data sources
RuleValue(i) ==
    IF wtests[i].type = "quality"
    THEN wtests[i].fetchers[1].result
    ELSE wtests[i].fetchers[1].result - wtests[i].fetchers[2].result

\* test i is a Quality test or a Consistency test with the difference action
HasRule(i) ==
    wtests[i].type = "quality" \/ wtests[i].action = "difference"

\* C24: computeResult sets result to the value of the test's rule: the single
\* data-source value for a Quality test, source[0] - source[1] for a
\* Consistency test with the difference action, whatever the sign of the
\* values and of the result.
C24_ResultIsRuleValue ==
    \A i \in 1..Len(wtests) :
        (HasRule(i) /\ assigned[i] > 0) =>
            /\ hasResult(wtests[i])
            /\ wtests[i].result = RuleValue(i)
            /\ wtests[i].result \in Int

\* a difference test whose first value is 0 and whose second value is
\* positive has got its negative result
C24_Witness ==
    \E i \in 1..Len(wtests) :
        /\ wtests[i].type = "consistency" /\ wtests[i].action = "difference"
        /\ assigned[i] = 1
        /\ wtests[i].fetchers[1].result = 0
        /\ wtests[i].fetchers[2].result > 0
        /\ wtests[i].result < 0

\* C28: a resolution that took longer than maxTestDuration leaves a warning
\* and nothing else: the overrun raises nothing, a warned test is dropped
\* only when one of its data sources signalled a failure, and otherwise it
\* is in the successful set once the loop is past it, with the result of its
\* rule once computed, and it is handed to its destination.
C28_OverrunOnlyWarns ==
    /\ wexc \in {"none", "psycopg2.Error"}
    /\ \A k \in 1..Len(warnings) :
           LET i == warnings[k]
           IN  /\ hasResult(wtests[i].fetchers[1])
               /\ (Fetched(i) /\ failed[i] = "none") =>
                      InSeq(i, testsWithResults) /\ Resolved(i)
               /\ (Returned /\ failed[i] = "none") =>
                      /\ hasResult(wtests[i])
                      /\ wtests[i].result = RuleValue(i)
                      /\ \E d \in 1..Len(delivered) : InSeq(i, delivered[d].tests)

\* the run returned; both resolutions of a difference test overran, and the
\* test has its result and was handed to a destination
C28_Witness ==
    /\ Returned
    /\ \E i \in 1..Len(wtests) :
           /\ wtests[i].type = "consistency"
           /\ Len(SelectSeq(warnings, LAMBDA w : w = i)) = 2
           /\ hasResult(wtests[i])
           /\ \E d \in 1..Len(delivered) : InSeq(i, delivered[d].tests)

\* the calls of a fetcher for test i, in call order
QueriesOf(i) == SelectSeq(queries, LAMBDA q : q[1] = i)

\* C29: within one run every data-source entry of every test is resolved at
\* most once, in declaration order; the entry whose resolution failed is the
\* last one resolved for its test, and the test is in no list of results:
\* not in the successful set, not handed to publishing or to a destination.
C29_ResolvedAtMostOnce ==
    /\ \A j, k \in 1..Len(queries) : j < k => queries[j] /= queries[k]
    /\ \A i \in 1..Len(wtests) :
           /\ Len(QueriesOf(i)) <= Len(wtests[i].fetchers)
           /\ \A k \in 1..Len(QueriesOf(i)) : QueriesOf(i)[k] = <<i, k>>
           /\ failed[i] /= "none" =>
                  /\ ~ hasResult(wtests[i].fetchers[Len(QueriesOf(i))])
                  /\ ~ InSeq(i, testsWithResults)
                  /\ \A p \in 1..Len(published) : ~ InSeq(i, published[p])
                  /\ \A d \in 1..Len(delivered) : ~ InSeq(i, delivered[d].tests)

\* the run returned: the first test failed on its second entry after two
\* resolutions, the second test was resolved and handed to a destination
C29_Witness ==
    /\ Returned
    /\ Len(wtests) = 2
    /\ failed[1] /= "none"
    /\ QueriesOf(1) = <<(<<1, 1>>), (<<1, 2>>)>>
    /\ hasResult(wtests[1].fetchers[1])
    /\ \E d \in 1..Len(delivered) : InSeq(2, delivered[d].tests)

\* C34: the entries of a test are resolved in declaration order and the
\* tests in batch order; when an entry signals a fetch failure it is the
\* last entry resolved for its test (no later entry is resolved or has a
\* value), and the loop goes on to the next test of the batch: it stands at
\* that test's first entry or has resolved it.
C34_FailureEndsEntriesOnly ==
    /\ \A j, k \in 1..Len(queries) :
           j < k => \/ queries[j][1] < queries[k][1]
                    \/ queries[j][1] = queries[k][1] /\ queries[j][2] < queries[k][2]
    /\ \A i \in 1..Len(wtests) :
           failed[i] /= "none" =>
               /\ QueriesOf(i) /= <<>>
               /\ \A e \in 1..Len(wtests[i].fetchers) :
                      IF e < Len(QueriesOf(i))
                      THEN hasResult(wtests[i].fetchers[e])
                      ELSE ~ hasResult(wtests[i].fetchers[e])
               /\ i < Len(wtests) =>
                      \/ wpc = "fetch" /\ ti = i + 1 /\ fi = 1
                      \/ QueriesOf(i + 1) /= <<>>

\* the first test, of two entries, failed on its first entry: its second
\* entry was never resolved, and the second test has been resolved since
C34_Witness ==
    /\ Len(wtests) = 2
    /\ Len(wtests[1].fetchers) = 2
    /\ failed[1] /= "none"
    /\ QueriesOf(1) = <<(<<1, 1>>)>>
    /\ ~ hasResult(wtests[1].fetchers[2])
    /\ Resolved(2) /\ InSeq(2, testsWithResults)

\* an entry of test i names a fetcher the manager has not opened
UnknownFetcher(i) ==
    \E e \in 1..Len(wtests[i].fetchers) :
        wtests[i].fetchers[e].name \notin ConfiguredFetchers

\* C37 (as claimed): a test naming an unknown fetcher is dropped like a fetch
\* failure: nothing leaves fetchResults because of it, the loop passes it
\* without keeping it, and a run that returns has handed to its destination
\* exactly the other tests that had no fetch failure, each with its result.
C37_UnknownFetcherIsolated ==
    /\ wexc /= "Exception"
    /\ \A i \in 1..Len(wtests) :
           (UnknownFetcher(i) /\ Fetched(i)) => ~ InSeq(i, testsWithResults)
    /\ (wpc \in {"done", "raised", "ended"}
          /\ \E j \in 1..Len(wtests) : UnknownFetcher(j)) =>
           \A i \in 1..Len(wtests) :
               (~ UnknownFetcher(i) /\ failed[i] = "none") =>
                   /\ Resolved(i) /\ hasResult(wtests[i])
                   /\ \E d \in 1..Len(delivered) : InSeq(i, delivered[d].tests)

\* ================================ master batch and slave rebuild (files)
\* the keys of yamlDict['metrics'], in declaration order
MetricKeys == <<"metric1", "metric2", "metric3">>

\* the flags active of the metrics of a definition file, in declaration order
ActiveLists == {<<FALSE>>, <<TRUE>>, <<TRUE, TRUE>>, <<TRUE, FALSE, TRUE>>}

\* a well-formed definition file: its name, its type and its metrics' flags:
\* a Quality definition, whose metrics declare one fetcher, with any of the
\* lists of flags, or a Consistency definition with the difference action,
\* whose one active metric declares two
Definitions ==
    [name : CatalogNames, kind : {"quality"}, actives : ActiveLists]
        \cup [name : CatalogNames, kind : {"consistency"}, actives : {<<TRUE>>}]

\* the parsed yaml of the well-formed file at path with content c
definitionAt(path, c) ==
    LET ms == [j \in 1..Len(c.actives) |->
                  mkMetric(path, MetricKeys[j], c.actives[j],
                           IF c.kind = "quality" THEN 1 ELSE 2)]
    IN  [metrics |-> ms]
            @@ yamlDictOf(path, [name |-> c.name, kind |-> c.kind, metrics |-> 1])

\* the slave's list of tests: tsts with the position of each test as its id
withIds(tsts) ==
    [i \in 1..Len(tsts) |->
        [k \in DOMAIN tsts[i] \cup {"id"} |-> IF k = "id" THEN i ELSE tsts[i][k]]]

\* t without the id the master's catalog gave it
noId(t) == [f \in DOMAIN t \ {"id"} |-> t[f]]

\* In prod a master function is about to run dispatchWork(0) over
\* well-formed definition files at the paths, with any batch size and any
\* iteration budget.
InitRebuild ==
    /\ \E S \in SUBSET Paths : \E c \in [S -> Definitions] :
           files = [q \in S |-> definitionAt(q, c[q])]
    /\ env = "prod"
    /\ batchSize \in 1..MaxSize
    /\ maxIterations \in 0..MaxIter
    /\ role = "master"
    /\ masters = <<newMaster(0, 0, "called")>>
    /\ slaves = EmptyBag
    /\ calls = <<>>
    /\ tests = <<>>
    /\ definitions = <<>>
    /\ caller = "dispatchWork"
    /\ filesArg = None
    /\ onlyActive = TRUE
    /\ bpc = "idle"
    /\ built = <<>>
    /\ bexc = "none"
    /\ BatcherIdle
    /\ WorkerIdle
    /\ MatchIdle
    /\ EntryIdle

\* dispatchWork, entry: the role check, then
\* `tests = self.testManager.buildTests(self.testsPath)` over the files as
\* glob lists them for this invocation, `iterations = 0` and the iteration
\* budget are read.  An exception of buildTests ends the invocation.
BuildCatalog(g) ==
    /\ masters[g].pc = "called"
    /\ \E found \in Listings(DOMAIN files) :
           LET r == buildTestsFromFiles(files, found, None, TRUE)
           IN  masters' = [masters EXCEPT ![g] =
                   IF roleCheck(role)
                   THEN [masters[g] EXCEPT !.pc = "fatal"]
                   ELSE IF r.exc = "none"
                   THEN [masters[g] EXCEPT !.pc = "loop",
                                           !.tests = withIds(r.tests)]
                   ELSE [masters[g] EXCEPT !.pc = "crashed"]]
    /\ UNCHANGED <<tests, batcherVars, configVars, slaves, calls, workerVars,
                   buildVars, matchVars, entryVars>>

\* a slave function invoked by callSlave starts, at any moment after the
\* call and whatever the other slaves are doing: runTests(filesNames),
\* `tests = self.testManager.buildTests(self.testsPath, filesNames)` over
\* the files as glob lists them for this run
SlaveBuild(s) ==
    /\ s.pc = "invoked"
    /\ \E found \in Listings(DOMAIN files) :
           LET r == buildTestsFromFiles(files, found, Some(s.filesNames), TRUE)
           IN  slaves' = moveSlave(s, [s EXCEPT
                             !.pc = IF r.exc = "none" THEN "built"
                                                      ELSE "buildRaised",
                             !.tests = r.tests])
    /\ UNCHANGED <<tests, batcherVars, configVars, masters, calls, workerVars,
                   buildVars, matchVars, entryVars>>

\* runTests, `if len(tests) > 0:` fetchResults, computeResults and
\* publishResults are called and return ("ran"); with an empty list none of
\* them is called ("skipped").  What the three do with a list is the subject
\* of SpecWorker.
SlaveRunTests(s) ==
    /\ s.pc = "built"
    /\ slaves' = moveSlave(s, [s EXCEPT !.pc = IF Len(s.tests) > 0
                                               THEN "ran" ELSE "skipped"])
    /\ UNCHANGED <<tests, batcherVars, configVars, masters, calls, workerVars,
                   buildVars, matchVars, entryVars>>

\* runTests raises out of fetchResults / computeResults / publishResults,
\* which are only called when len(tests) > 0; in prod nothing of it reaches
\* the master
SlaveRunTestsRaise(s) ==
    /\ s.pc = "built"
    /\ Len(s.tests) > 0
    /\ slaves' = moveSlave(s, [s EXCEPT !.pc = "raised"])
    /\ UNCHANGED <<tests, batcherVars, configVars, masters, calls, workerVars,
                   buildVars, matchVars, entryVars>>

\* One master invocation in prod and the slave functions it invokes.  The
\* master goes through its loop without waiting for them, and the slaves
\* run independently of each other; the master function invoked by its
\* hand-off is not followed (it is again a master invocation over the same
\* files).
NextRebuild ==
    \/ \E g \in 1..Len(masters) : BuildCatalog(g)
    \/ \E g \in 1..Len(masters) : MasterDispatch(g)
    \/ \E g \in 1..Len(masters) : SleepEnd(g)
    \/ \E g \in 1..Len(masters) : CallMasterAsync(g)
    \/ \E g \in 1..Len(masters) : MasterLoopExit(g)
    \/ \E s \in BagToSet(slaves) : SlaveBuild(s)
    \/ \E s \in BagToSet(slaves) : SlaveRunTests(s)
    \/ \E s \in BagToSet(slaves) : SlaveRunTestsRaise(s)

SpecRebuild == InitRebuild /\ [][NextRebuild]_vars

\* the Quality definitions of one or two metrics, all active
ActiveDefinitions ==
    [name : CatalogNames, kind : {"quality"}, actives : {<<TRUE>>, <<TRUE, TRUE>>}]

\* The asynchronous invocation of a master is delivered twice, in prod, over
\* definition files of active tests: two master invocations get the same
\* event, i.e. the same cursor, and each builds its own catalog from the
\* files.
InitRedeliveryFiles ==
    /\ \E S \in SUBSET Paths : \E c \in [S -> ActiveDefinitions] :
           files = [q \in S |-> definitionAt(q, c[q])]
    /\ env = "prod"
    /\ batchSize \in 1..MaxSize
    /\ maxIterations \in 0..MaxIter
    /\ role = "master"
    /\ \E s \in 0..Cardinality(DOMAIN files) :
           masters = <<newMaster(s, 0, "invoked"), newMaster(s, 0, "invoked")>>
    /\ slaves = EmptyBag
    /\ calls = <<>>
    /\ tests = <<>>
    /\ definitions = <<>>
    /\ caller = "dispatchWork"
    /\ filesArg = None
    /\ onlyActive = TRUE
    /\ bpc = "idle"
    /\ built = <<>>
    /\ bexc = "none"
    /\ BatcherIdle
    /\ WorkerIdle
    /\ MatchIdle
    /\ EntryIdle

\* The steps of the two master invocations; the slave functions they invoke
\* stay in flight (no step of a master in prod reads anything a slave does).
NextRedeliveryFiles ==
    \/ \E g \in 1..Len(masters) : MasterStart(g)
    \/ \E g \in 1..Len(masters) : BuildCatalog(g)
    \/ \E g \in 1..Len(masters) : MasterDispatch(g)
    \/ \E g \in 1..Len(masters) : SleepEnd(g)
    \/ \E g \in 1..Len(masters) : CallMasterAsync(g)
    \/ \E g \in 1..Len(masters) : MasterLoopExit(g)

SpecRedeliveryFiles == InitRedeliveryFiles /\ [][NextRedeliveryFiles]_vars

\* C17: two master invocations called with the same cursor, each over the
\* catalog it has built itself from the same files (whatever the order glob
\* listed them in), issue the same calls (worker dispatches with the same
\* batches and file names, hand-off with the same cursor) in the same order:
\* at any moment the calls of one are a prefix of the calls of the other,
\* and they are equal once both have returned.
C17_SameCursorSameCalls ==
    \A g, h \in 1..Len(masters) :
        masters[g].entry = masters[h].entry =>
            /\ IsPrefix(CallsOf(g), CallsOf(h)) \/ IsPrefix(CallsOf(h), CallsOf(g))
            /\ (masters[g].pc = "done" /\ masters[h].pc = "done")
                   => CallsOf(g) = CallsOf(h)

\* both deliveries of one event have built a catalog of tests of two files,
\* and returned, each after dispatching a non-empty batch and handing off at
\* a cursor beyond the one they got
C17_Witness ==
    \E g, h \in 1..Len(masters) :
        /\ g /= h
        /\ masters[g].entry = masters[h].entry
        /\ masters[g].pc = "done" /\ masters[h].pc = "done"
        /\ \E i, j \in 1..Len(masters[g].tests) :
               masters[g].tests[i].name /= masters[g].tests[j].name
        /\ masters[h].tests = masters[g].tests
        /\ \E k \in SlaveCalls(g) : calls[k].batch /= <<>>
        /\ \E k \in SlaveCalls(h) : calls[k].batch /= <<>>
        /\ \E k \in HandOffs(g) : calls[k].startIndex > masters[g].entry
        /\ \E k \in HandOffs(h) : calls[k].startIndex > masters[h].entry

\* the path q ends with the pieces of sfx
EndsWith(q, sfx) ==
    /\ Len(q) >= Len(sfx)
    /\ \A k \in 1..Len(sfx) : q[Len(q) - Len(sfx) + k] = sfx[k]

\* every definition's name is the base name of its file (without the
\* extension), and no two files share a base name
NamedAfterFiles ==
    /\ \A q \in DOMAIN files :
           EndsWith(q, <<"/", files[q].name, ".yaml">>)
    /\ \A p, q \in DOMAIN files :
           p /= q => ~ EndsWith(p, <<"/", q[Len(q) - 1], q[Len(q)]>>)

\* the tests of the batch of call k, as the catalog of the generation that
\* issued the call has them
BatchOf(k) ==
    LET catalog == masters[calls[k].gen].tests
    IN  [i \in 1..Len(calls[k].batch) |-> noId(catalog[calls[k].batch[i]])]

\* the calls callSlave(filesNames) that passed the list of names the slave
\* run s got
CallsNaming(s) ==
    {k \in 1..Len(calls) :
        calls[k].kind = "slave" /\ calls[k].filesNames = s.filesNames}

\* C33: the slave is given the batch only as the names test.name + '.yaml';
\* when every definition is named after its file and no two files share a
\* base name, the list buildTests(testsPath, filesNames) returns in a slave
\* is the batch the master selected: the same tests in the same order.
C33_SlaveRebuildsBatch ==
    NamedAfterFiles =>
        /\ \A k \in 1..Len(calls) :
               calls[k].kind = "slave" =>
                   calls[k].filesNames =
                       [i \in 1..Len(calls[k].batch) |->
                           fileName(BatchOf(k)[i].name)]
        /\ \A s \in BagToSet(slaves) :
               s.pc /= "invoked" =>
                   /\ s.pc /= "buildRaised"
                   /\ CallsNaming(s) /= {}
                   /\ \A k \in CallsNaming(s) : s.tests = BatchOf(k)

\* over two files of two active tests each, the batch was trimmed to the
\* two tests of the first file, and a slave has rebuilt these two and run
\* them while another slave invocation was still in flight
C33_Witness ==
    /\ NamedAfterFiles
    /\ batchSize = 3
    /\ Len(masters[1].tests) = 4
    /\ \E s \in BagToSet(slaves) :
           /\ s.pc = "ran"
           /\ \E k \in CallsNaming(s) :
                  /\ Len(calls[k].batch) = 2
                  /\ BatchOf(k)[1].name = BatchOf(k)[2].name
                  /\ BatchOf(k)[1] /= BatchOf(k)[2]
                  /\ s.tests = BatchOf(k)
    /\ \E t \in BagToSet(slaves) : t.pc = "invoked"

\* C35: a slave called with an empty list of file names builds no test and
\* its run does nothing: fetchResults, computeResults and publishResults are
\* not called and nothing is raised; whatever the files are, the empty list
\* does not select them.
C35_EmptyNamesNothingRuns ==
    \A s \in BagToSet(slaves) :
        (s.filesNames = <<>> /\ s.pc /= "invoked") =>
            /\ s.tests = <<>>
            /\ s.pc \in {"built", "skipped"}

\* the master took an empty batch from a catalog that is not empty, and a
\* slave called with its empty list of names has come to its end
C35_Witness ==
    /\ DOMAIN files /= {}
    /\ Len(masters[1].tests) >= 2
    /\ \E s \in BagToSet(slaves) :
           /\ s.filesNames = <<>>
           /\ s.pc = "skipped"
           /\ \E k \in CallsNaming(s) : calls[k].batch = <<>>

\* ================================= instance: construction and role's work
\* the roles an instance is given: those executeResponsabilites knows, and
\* 'updater', the role the command line sends for the mode updateBoards
EntryRoles == Roles \cup {"updateBoards"}

\* BigEye.__init__: the manager attributes assigned for env e and role r
constructed(e, r) ==
    {"testManager"}
      \cup (IF r \in {"slave", "updater"} \/ e = "dev"
            THEN {"publisherManager"} ELSE {})
      \cup (IF r = "slave" \/ e = "dev" THEN {"fetcherManager"} ELSE {})

\* the work reads the attributes `wanted` in this order: the attributes read
\* up to the first one the instance lacks
RECURSIVE readsOf(_, _)
readsOf(wanted, has) ==
    IF wanted = <<>> THEN {}
    ELSE IF Head(wanted) \in has
    THEN {Head(wanted)} \cup readsOf(Tail(wanted), has)
    ELSE {Head(wanted)}

\* the exception of reading the attributes `wanted` on the instance
readExc(wanted, has) ==
    IF \E k \in 1..Len(wanted) : wanted[k] \notin has
    THEN "AttributeError" ELSE "none"

\* runTests: the attributes read for a list of n built tests
runTestsReads(n) ==
    IF n > 0
    THEN <<"testManager", "fetcherManager", "testManager", "publisherManager">>
    ELSE <<"testManager">>

\* the event's filesNames of a slave: the names of the first batch of the
\* catalog
firstNames ==
    LET b == subsetOfTests(tests, 0, batchSize)[1]
    IN  [k \in 1..Len(b) |-> fileName(b[k].name)]

\* BigEye(env, role, configPath, testsPath, event) is about to be
\* constructed, for any environment, role, catalog and configuration;
\* startIndex is the event's startIndex, any cursor of the catalog
InitRoles ==
    /\ tests \in {mkTests(f) : f \in Catalogs}
    /\ env \in {"dev", "prod"}
    /\ role \in EntryRoles
    /\ batchSize \in 1..MaxSize
    /\ maxIterations \in 0..MaxIter
    /\ masters = <<>> /\ slaves = EmptyBag /\ calls = <<>>
    /\ managers = {}
    /\ epc = "new"
    /\ used = {}
    /\ eexc = "none"
    /\ startIndex \in 0..Len(tests)
    /\ maxsize = 1 /\ firstIndex = 0 /\ prevIndex = -1
    /\ subset = <<>> /\ batches = <<>>
    /\ WorkerIdle
    /\ BuildIdle
    /\ MatchIdle

\* BigEye.__init__
Construct ==
    /\ epc = "new"
    /\ managers' = constructed(env, role)
    /\ epc' = "constructed"
    /\ UNCHANGED <<used, eexc, tests, batcherVars, dispatchVars, workerVars,
                   buildVars, matchVars>>

\* executeResponsabilites: the branch of the role is entered; a role that is
\* none of 'master', 'slave', 'updateBoards' returns at once
ExecuteResponsabilites ==
    /\ epc = "constructed"
    /\ epc' = CASE role = "master" -> "dispatchWork"
                [] role = "slave" -> "runTests"
                [] role = "updateBoards" -> "updatePublishers"
                [] OTHER -> "returned"
    /\ UNCHANGED <<managers, used, eexc, tests, batcherVars, dispatchVars,
                   workerVars, buildVars, matchVars>>

\* dispatchWork(params['startIndex']): buildTests, then the loop.  In prod
\* every batch goes to the Lambda client and the hand-off too, and the call
\* returns.  In dev callSlave runs runTests on the instance itself, first on
\* the batch at startIndex, and callMaster calls dispatchWork again: when
\* the dispatches from startIndex never get to the end of the catalog the
\* call ends in RecursionError.
DispatchWorkOnInstance ==
    LET m == [newMaster(startIndex, 0, "loop") EXCEPT !.tests = tests]
        testBatch == subsetOfTests(tests, startIndex, batchSize)[1]
        filesNames == [k \in 1..Len(testBatch) |-> fileName(testBatch[k].name)]
        n == Len(buildTests(tests, Some(filesNames), TRUE))
        wanted == IF env = "dev" /\ loopCondition(m) /\ maxIterations >= 1
                  THEN <<"testManager">> \o runTestsReads(n)
                  ELSE <<"testManager">>
    IN  /\ epc = "dispatchWork"
        /\ used' = used \cup readsOf(wanted, managers)
        /\ eexc' = IF readExc(wanted, managers) /= "none"
                   THEN readExc(wanted, managers)
                   ELSE IF env = "dev"
                           /\ ~ chainCompletes(tests, startIndex, batchSize,
                                               maxIterations)
                   THEN "RecursionError"
                   ELSE "none"
        /\ epc' = IF eexc' = "none" THEN "returned" ELSE "raised"
        /\ UNCHANGED <<managers, tests, batcherVars, dispatchVars, workerVars,
                       buildVars, matchVars>>

\* runTests(params['filesNames']) of a slave
RunTestsOnInstance ==
    LET n == Len(buildTests(tests, Some(firstNames), TRUE))
        wanted == runTestsReads(n)
    IN  /\ epc = "runTests"
        /\ used' = used \cup readsOf(wanted, managers)
        /\ eexc' = readExc(wanted, managers)
        /\ epc' = IF eexc' = "none" THEN "returned" ELSE "raised"
        /\ UNCHANGED <<managers, tests, batcherVars, dispatchVars, workerVars,
                       buildVars, matchVars>>

\* updatePublishers: buildTests, then publisherManager.updatePublishers(tests)
UpdatePublishers ==
    LET wanted == <<"testManager", "publisherManager">>
    IN  /\ epc = "updatePublishers"
        /\ used' = used \cup readsOf(wanted, managers)
        /\ eexc' = readExc(wanted, managers)
        /\ epc' = IF eexc' = "none" THEN "returned" ELSE "raised"
        /\ UNCHANGED <<managers, tests, batcherVars, dispatchVars, workerVars,
                       buildVars, matchVars>>

NextRoles ==
    \/ Construct
    \/ ExecuteResponsabilites
    \/ DispatchWorkOnInstance
    \/ RunTestsOnInstance
    \/ UpdatePublishers

SpecRoles == InitRoles /\ [][NextRoles]_vars

\* C36 (as claimed): for env dev and prod and the roles master, slave and
\* updateBoards, every manager the role's work reads is an attribute
\* __init__ has assigned, so the work never ends on a missing manager.
C36_ManagersConstructed ==
    role \in {"master", "slave", "updateBoards"} =>
        /\ used \subseteq managers
        /\ eexc /= "AttributeError"

====
